---- MODULE Spec2Model ----
(***************************************************************************)
(* Deposit orchestration of thoth-dissemination: the Figshare uploader     *)
(* (fsuploader.py) and the Zenodo uploader (zenodouploader.py), each run   *)
(* against a remote platform whose records persist from one run to the     *)
(* next.  Every HTTP request of a run is one step; the platform's answer   *)
(* to it is chosen from Responses.                                         *)
(*                                                                         *)
(*   Spec              a run of either uploader, from its construction     *)
(*   SpecUploadFile    FigshareApi.upload_file, for every file and every   *)
(*                     Part list of the upload service                     *)
(*   SpecIssueRequest  one call of issue_request of either client, for     *)
(*                     every response to it                                *)
(*   SpecPublications  the retrieval of the publications of a work, for    *)
(*                     every availability of every format                  *)
(*   SpecFileInfo      FigshareApi.upload_file from its first call, with   *)
(*                     the file registration of construct_file_info        *)
(*   SpecTwoRuns       two runs of the Figshare uploader interleaved       *)
(*                     against one repository                              *)
(*   SpecSftp          a run of an SFTP uploader (JSTOR, Project MUSE,     *)
(*                     EBSCOhost, ProQuest) or of the Google Play uploader *)
(*   SpecFinder        obtain_new_ids.py, for every catalogue of works     *)
(*   SpecCrossrefIds   obtain_new_ids_crossref.py                          *)
(*   SpecIA            a run of the Internet Archive uploader              *)
(*   SpecCrossref      a run of the Crossref uploader                      *)
(*   SpecLocation      a Location printed by Uploader.run and read back    *)
(*                     by write_locations.py                               *)
(***************************************************************************)
EXTENDS Integers, Sequences, FiniteSets, TLC

(* ------------------------------ bounds -------------------------------- *)

\* distinct Thoth work ids; each may already have been deposited by an earlier run
NumWorks == 2
\* the work has publications in the first MaxPubs formats of PUB_FORMATS only
MaxPubs == 2
\* parts the upload service asks one file to be split into
MaxParts == 2
\* bytes of a file whose slices upload_part sends
MaxLen == 2
\* works Thoth serves to a query for work ids
MaxCatalogue == 3
\* days a publication date is chosen from
MaxDate == 3
\* characters of one field of a Location
MaxField == 2

(* ------------------------ program constants --------------------------- *)

\* check_upload_status: "if tries <= 3: sleep(5)"
MaxTries == 3
SleepSeconds == 5

\* obtain_new_ids_crossref.py: "limit = 50"
limit == 50

\* uploader.py PUB_FORMATS, in dictionary order
PUB_FORMATS == <<"PDF", "XML", "EPUB", "AZW3", "MOBI", "DOCX", "FICTION_BOOK">>

Works == 1..NumWorks

(* ------------------------- the remote answer -------------------------- *)

\* body shapes: a JSON object holding the keys the caller reads, a JSON
\* object lacking one of them, a JSON array, or something that is not JSON
Bodies == {"object", "object_missing", "array", "not_json"}

\* the 'message' of a JSON object: none ("None"), the empty string, one line,
\* or two lines
Messages == {"None", "", "one line", "first line + second line"}

\* str.splitlines
splitlines(m) ==
    CASE m = "" -> <<>>
      [] m = "first line + second line" -> <<"first line", "second line">>
      [] OTHER -> <<m>>

\* A response: either no response at all (transport failure, requests raises
\* ConnectionError/Timeout), or a status (the expected one, or another) and a
\* body.  Of the message of an error body the deposit only tells whether it
\* is the empty string.
Responses ==
    {[transport |-> TRUE, status_ok |-> FALSE, body |-> "not_json", message |-> "None"]}
    \cup {r \in [transport : {FALSE}, status_ok : BOOLEAN, body : Bodies,
                 message : {"None", ""}] :
             r.message # "None" => (~r.status_ok /\ r.body \in {"object", "object_missing"})}

\* The platform carried the request out exactly when it answered with the
\* status the client expects.
Performed(r) == ~r.transport /\ r.status_ok

\* a body that is not JSON taken as no body, whatever the caller expects
FigshareApi_issue_request_lenient(keys, r) ==
    IF r.transport THEN "ConnectionError"
    ELSE IF ~r.status_ok THEN
        IF r.body = "array" THEN "AttributeError"
        ELSE IF r.body # "not_json" /\ splitlines(r.message) = <<>> THEN "IndexError"
        ELSE "DisseminationError"
    ELSE IF keys = "none" THEN "ok"
    ELSE IF keys = "full" THEN "ok"
    ELSE CASE r.body = "object" -> "ok"
           [] r.body = "object_missing" -> "DisseminationError"
           [] OTHER -> "TypeError"

\* FigshareApi.issue_request.  keys: "none" (expected_keys is None), "full"
\* (expected_keys == []), "keys" (a non-empty list of keys).  The value is
\* "ok" or the name of the exception raised.
FigshareApi_issue_request(keys, r) ==
    IF r.transport THEN "ConnectionError"
    ELSE IF r.body = "not_json" /\ keys # "none" THEN "DisseminationError"
    ELSE IF ~r.status_ok THEN
        \* response_json.get('message') on a JSON array
        IF r.body = "array" THEN "AttributeError"
        \* figshare_message.splitlines()[0] on the empty string
        ELSE IF r.body # "not_json" /\ splitlines(r.message) = <<>> THEN "IndexError"
        ELSE "DisseminationError"
    ELSE IF keys = "none" THEN "ok"
    ELSE IF keys = "full" THEN "ok"
    ELSE CASE r.body = "object" -> "ok"
           [] r.body = "object_missing" -> "DisseminationError"
           \* response_json[key] on a JSON array
           [] OTHER -> "TypeError"

\* FigshareApi.issue_request: the DisseminationError it raises, as the status
\* code (0: none) and the line of the body's message ("None": none) that its
\* message carries
FigshareApi_error_message(status_code, keys, r) ==
    IF r.body = "not_json" /\ keys # "none"
    THEN [status |-> 0, text |-> "None"]      \* 'unexpected response "{text}"'
    ELSE IF r.status_ok
    THEN [status |-> 0, text |-> "None"]      \* 'No data found ... for requested item'
    ELSE [status |-> status_code,
          text |-> IF r.body = "not_json" \/ r.message = "None" THEN "None"
                   ELSE splitlines(r.message)[1]]

(* ------------------------------ state --------------------------------- *)

VARIABLES
    uploader,      \* "Figshare" or "Zenodo": the platform argument
    work_id,       \* the run's work id
    metadata,      \* self.metadata: the fields of the Thoth work that are tested
    pc,            \* the request the run issues next, or "done"
    projects,      \* Figshare: project id -> [state, work]
    articles,      \* Figshare: article id -> [project, state, work]
    depositions,   \* Zenodo: deposition id -> [state, work]
    search_results,\* number of articles the search returned (-1: no search yet)
    project_id,    \* id returned by create_project (0: none yet)
    deposition_id, \* id returned by create_deposition (0: none yet)
    publications,  \* the formats retrieved, in PUB_FORMATS order
    pub_idx,       \* index of the publication being processed
    article_id,    \* id of the article being filled (0: none)
    file_no,       \* 1: publication file, 2: JSON metadata file
    parts_left,    \* parts of the current file still to PUT
    tries,         \* check_upload_status: tries
    last_status,   \* last status polled for file 1 and file 2 of the article
    polls,         \* status requests issued for file 1 and file 2 of the article
    slept,         \* seconds check_upload_status has slept for file 1 and file 2
    pub_file_id,   \* file id returned for the publication file
    locations,     \* Locations collected so far
    done_steps,    \* the steps of the try statement that have returned: <<step, id>>
    error,         \* exception caught by the try statement ("none": none)
    failed_at,     \* the step at which the run failed ("none": none)
    outcome,       \* "running", "returned", "exit1" or "raised"
    raised,        \* the exception the run terminated with ("none": none)
    file_bytes,    \* the bytes of every file this run uploads
    upload_plan,   \* the Part list the upload service holds for such a file
    custom_field,  \* Figshare: the repository defines the field 'Thoth Work ID'
    work_publications, \* what Thoth and the file hosts hold for each format
    stdout,        \* Uploader.run: the Locations printed
    runs,          \* two runs against one platform: the state of each
    sftp_upload,   \* the SFTP and Google Play uploaders: the state of a run
    id_finder,     \* obtain_new_ids.py: the state of IDFinder.run
    crossref_ids,  \* obtain_new_ids_crossref.py: the state of the script
    ia_upload,     \* iauploader.py: the state of a run
    crossref_upload, \* crossrefuploader.py: the state of a run
    location_line, \* write_locations.py: a Location, its line, what is written
    parts,         \* upload_data: the Part list the upload service returned
    puts,          \* upload_data: the PUT requests issued for that list
    requests,      \* upload_file: the steps issued for the current file
    file_info,     \* initiate_new_upload: the record the file was registered with
    request,       \* issue_request on its own: the call and the response to it
    result,        \* issue_request on its own: what the call ended with
    zn_requests,   \* Zenodo: the requests of the try statement, and how each ended
    mutations,     \* mutating requests this run has issued
    deletes,       \* arguments of the DELETE container requests of this run
    log            \* what this run has logged: <<level, message>>

vars == <<uploader, work_id, metadata, pc, projects, articles, depositions,
          search_results, project_id, deposition_id, publications, pub_idx, article_id,
          file_no, parts_left, tries, last_status, polls, slept, pub_file_id,
          locations, done_steps, error, failed_at, outcome, raised, file_bytes, upload_plan, custom_field,
          work_publications, stdout, runs, sftp_upload, id_finder, crossref_ids,
          ia_upload, crossref_upload, location_line, parts, puts, requests, file_info,
          request, result, zn_requests, mutations, deletes, log>>

platformVars == <<projects, articles, depositions>>
\* the arguments and the environment of the single run
envVars == <<uploader, work_id, metadata, file_bytes, upload_plan, custom_field,
             work_publications, stdout>>
\* what no step of upload_to_platform changes
\* the other programs of the repository
toolVars == <<sftp_upload, id_finder, crossref_ids, ia_upload, crossref_upload, location_line>>
argVars == <<envVars, runs, toolVars>>
traceVars == <<parts, puts, requests, file_info>>
callVars == <<request, result, zn_requests>>
uploadVars == <<file_no, parts_left, tries, last_status, polls, slept, pub_file_id, traceVars>>
loopVars == <<publications, pub_idx, article_id, locations, done_steps>>
idVars == <<search_results, project_id, deposition_id>>
endVars == <<error, failed_at, outcome, raised>>
histVars == <<mutations, deletes>>

\* two invocations of the disseminator at the same time
Runs == {"a", "b"}

\* a run of FigshareUploader.upload_to_platform that has not started: the
\* local variables of the method and how it ended, with the ids the platform
\* returned to it (created) and the requests it addressed to an id (touched)
NewRun(w) ==
    [work_id |-> w, pc |-> "search_articles", search_results |-> -1, project_id |-> 0,
     article_id |-> 0, error |-> "none", failed_at |-> "none",
     outcome |-> "running", raised |-> "none", created |-> {}, touched |-> {}]

\* one run only: no second invocation
NoRuns == [i \in Runs |-> NewRun(0)]

\* a program that is not run
Idle == [pc |-> "idle"]

\* none of the other programs is run
ToolsIdle ==
    /\ sftp_upload = Idle
    /\ id_finder = Idle
    /\ crossref_ids = Idle
    /\ ia_upload = Idle
    /\ crossref_upload = Idle
    /\ location_line = Idle

FirstStep(u) == IF u = "Figshare" THEN "check_custom_field_exists"
                ELSE "zn_get_formatted_metadata"

\* What an earlier, successful deposit of work w left on the platform: one
\* published container (id w) holding one published record (id w).
EarlierContainer(existing, w) ==
    [state |-> IF w \in existing THEN "public" ELSE "none", work |-> w]
EarlierArticle(existing, w) ==
    [project |-> w, state |-> IF w \in existing THEN "public" ELSE "none", work |-> w]

\* the fields of the Thoth work that FigshareUploader.parse_metadata tests
FigshareWorkMetadata ==
    [longAbstract : BOOLEAN,          \* longAbstract is not None
     workType : BOOLEAN,              \* workType is one Figshare has a type for
     license : {"none", "malformed", "unsupported", "supported"},
     mainContributions : 0..1,        \* contributions with mainContribution
     keywords : 0..1]                 \* subjects of type KEYWORD

\* the fields of the Thoth work that ZenodoUploader.parse_metadata tests
ZenodoWorkMetadata ==
    [longAbstract : BOOLEAN,          \* longAbstract is not None
     doi : BOOLEAN,                   \* doi is not None
     mainContributions : 0..1,        \* contributions with mainContribution
     license : {"none", "malformed", "unsupported", "supported"},
     relations : BOOLEAN]             \* every relationType is a known one

\* the status codes of a response, and those a caller expects
StatusCodes == {200, 201, 404}
ExpectedStatuses == {200, 201}

\* a response in full: its status code, its body and the message of the body
FullResponses ==
    {[transport |-> TRUE, status_code |-> 0, body |-> "not_json", message |-> "None"]}
    \cup {r \in [transport : {FALSE}, status_code : StatusCodes, body : Bodies,
                 message : Messages] :
             r.message # "None" => r.body \in {"object", "object_missing"}}

\* a call of issue_request and the response to it.  expects: what the caller
\* wants returned (Figshare expected_keys: "none", "full", "keys"; Zenodo
\* return_json: "none", "full")
Calls ==
    [api : {"Figshare"}, expects : {"none", "full", "keys"},
     expected_status : ExpectedStatuses, response : FullResponses]
    \cup [api : {"Zenodo"}, expects : {"none", "full"},
          expected_status : ExpectedStatuses, response : FullResponses]

\* no call of issue_request on its own
NoRequest == [api |-> "none", expects |-> "none", expected_status |-> 0,
              response |-> [transport |-> TRUE, status_code |-> 0, body |-> "not_json",
                            message |-> "None"]]
NoError == [status |-> 0, text |-> "None"]
NoResult == [outcome |-> "none", error |-> NoError]

\* fsuploader.py:349, zenodouploader.py:294: the response as the deposit sees it
Answer(req) ==
    [transport |-> req.response.transport,
     status_ok |-> req.response.status_code = req.expected_status,
     body |-> req.response.body,
     message |-> req.response.message]

\* Files of up to MaxLen bytes.  The bytes of a file are pairwise distinct, so
\* that a slice of it tells the offsets it was read from.
Contents == {[i \in 1..n |-> i] : n \in 0..MaxLen}

\* The deposit does not depend on what the files hold: the runs of Spec
\* upload files of one byte, which the upload service takes in one Part.
OneByte == [i \in 1..1 |-> i]
OnePart == <<[partNo |-> 1, startOffset |-> 0, endOffset |-> 0]>>

\* a Part of the upload service: its number and the offsets of its first and
\* last byte, inside a file of the given size
Parts(size) ==
    {p \in [partNo : 1..MaxParts, startOffset : 0..(size - 1), endOffset : 0..(size - 1)] :
        p.startOffset <= p.endOffset}

\* the Part lists the upload service may hold for a file: up to MaxParts
\* Parts, in any order
PartLists(size) == UNION {[1..n -> Parts(size)] : n \in 0..MaxParts}

\* uploader.py PUB_FORMATS[format]['file_extension']
FileExtension(format) ==
    CASE format = "PDF" -> ".pdf"
      [] format = "XML" -> ".zip"
      [] format = "EPUB" -> ".epub"
      [] format = "AZW3" -> ".azw3"
      [] format = "MOBI" -> ".mobi"
      [] format = "DOCX" -> ".docx"
      [] OTHER -> ".fb2"

\* fsuploader.py:97,109,112: '{}{}'.format(filename, ext), the work id followed
\* by the extension, as the pair of the two
FileName(work, ext) == <<work, ext>>

\* hashlib.md5 as construct_file_info uses it: update(bytes) folds the bytes,
\* in order, into a digest of fixed width.  A chained checksum of one octet
\* stands for the 128 bits of MD5; it tells apart all the files of Contents.
RECURSIVE hashlib_md5(_)
hashlib_md5(bytes) ==
    IF bytes = <<>> THEN 212
    ELSE (hashlib_md5(SubSeq(bytes, 1, Len(bytes) - 1)) * 31 + bytes[Len(bytes)]) % 256

\* md5.hexdigest(): the digest as lowercase hexadecimal digits, two per octet
hexdigest(digest) ==
    LET digits == <<"0", "1", "2", "3", "4", "5", "6", "7",
                    "8", "9", "a", "b", "c", "d", "e", "f">>
    IN <<digits[(digest \div 16) + 1], digits[(digest % 16) + 1]>>

\* a record whose digest is taken before any byte was fed to it
construct_file_info_no_update(bytes, file_name) ==
    [name |-> file_name, md5 |-> hexdigest(hashlib_md5(<<>>)), size |-> Len(bytes)]

\* FigshareApi.construct_file_info
construct_file_info(bytes, file_name) ==
    [name |-> file_name, md5 |-> hexdigest(hashlib_md5(bytes)), size |-> Len(bytes)]

\* no file registered yet
NoFileInfo == [name |-> <<0, "none">>, md5 |-> <<>>, size |-> 0]

\* What the work holds for one format of PUB_FORMATS: no publication of that
\* type, or none with a canonical location ("absent"); or a Full Text URL
\* whose host times out on connecting, refuses the connection, serves another
\* content type, or serves the file.
PublicationStates == {"absent", "timeout", "refused", "wrong_type", "retrievable"}

\* the work has publications in its first n formats only; at[i] says what
\* holds for format i
WorkPublications(n, states) ==
    {at \in [1..Len(PUB_FORMATS) -> states \cup {"absent"}] :
        \A i \in 1..Len(PUB_FORMATS) : i > n => at[i] = "absent"}

\* a work whose PDF is there and nothing else
OnlyPDF == [i \in 1..Len(PUB_FORMATS) |-> IF i = 1 THEN "retrievable" ELSE "absent"]

\* ZenodoUploader does not go through get_publication_details
NoPublicationDetails == [i \in 1..Len(PUB_FORMATS) |-> "absent"]

Init ==
    /\ uploader \in {"Figshare", "Zenodo"}
    /\ work_publications \in
          IF uploader = "Figshare"
          THEN WorkPublications(MaxPubs, {"refused", "retrievable"})
          ELSE {NoPublicationDetails}
    /\ file_bytes = OneByte
    /\ upload_plan = OnePart
    /\ custom_field \in IF uploader = "Figshare" THEN BOOLEAN ELSE {FALSE}
    /\ stdout = <<>>
    /\ runs = NoRuns
    /\ ToolsIdle
    /\ parts = <<>>
    /\ puts = <<>>
    /\ requests = <<>>
    /\ file_info = NoFileInfo
    /\ request = NoRequest
    /\ result = NoResult
    /\ zn_requests = <<>>
    /\ work_id \in Works
    /\ metadata \in IF uploader = "Figshare" THEN FigshareWorkMetadata
                    ELSE ZenodoWorkMetadata
    /\ search_results = -1
    /\ pc = FirstStep(uploader)
    /\ \E existing \in SUBSET Works :
        /\ projects = [w \in Works |->
               EarlierContainer(IF uploader = "Figshare" THEN existing ELSE {}, w)]
        /\ articles = [w \in Works |->
               EarlierArticle(IF uploader = "Figshare" THEN existing ELSE {}, w)]
        /\ depositions = [w \in Works |->
               EarlierContainer(IF uploader = "Zenodo" THEN existing ELSE {}, w)]
    /\ project_id = 0
    /\ deposition_id = 0
    /\ publications = <<>>
    /\ pub_idx = 0
    /\ article_id = 0
    /\ file_no = 1
    /\ parts_left = 0
    /\ tries = 0
    /\ last_status = <<"none", "none">>
    /\ polls = <<0, 0>>
    /\ slept = <<0, 0>>
    /\ pub_file_id = 0
    /\ locations = <<>>
    /\ done_steps = <<>>
    /\ error = "none"
    /\ failed_at = "none"
    /\ outcome = "running"
    /\ raised = "none"
    /\ mutations = {}
    /\ deletes = <<>>
    /\ log = <<>>


(* --------------------------- terminations ----------------------------- *)

\* logging.error(msg); sys.exit(1)
Exit1(step, msg) ==
    /\ pc' = "done"
    /\ outcome' = "exit1"
    /\ failed_at' = step
    /\ log' = Append(log, <<"ERROR", msg>>)
    /\ UNCHANGED <<error, raised>>

\* an exception nothing catches leaves upload_to_platform
Raise(step, exc) ==
    /\ pc' = "done"
    /\ outcome' = "raised"
    /\ raised' = exc
    /\ failed_at' = step
    /\ UNCHANGED <<error, log>>

\* what a caller does with the result of a request it wraps in
\* "except DisseminationError: logging.error(...); sys.exit(1)"
ExitOrRaise(step, res) ==
    IF res = "DisseminationError" THEN Exit1(step, step) ELSE Raise(step, res)

\* a list endpoint that answers with the expected status answers with a JSON array
ListResponses == {r \in Responses : Performed(r) => r.body = "array"}

(* ------------------- Figshare: before the container ------------------- *)

\* a missing field that is passed over
FieldMissing_ignored(custom_fields) == FALSE

\* fsuploader.py:423  no field of the list is named 'Thoth Work ID'
FieldMissing(custom_fields) == "Thoth Work ID" \notin custom_fields

\* the names of the custom fields the repository answers with
CustomFields == IF custom_field THEN {"Thoth Work ID", "Other"} ELSE {"Other"}

\* FigshareApi.check_custom_field_exists('Thoth Work ID'), first half of search_articles
check_custom_field_exists ==
    /\ pc = "check_custom_field_exists"
    /\ \E r \in ListResponses :
        LET res == FigshareApi_issue_request("full", r) IN
        IF res # "ok" THEN ExitOrRaise("check_custom_field_exists", res)
        ELSE IF FieldMissing(CustomFields)
             THEN Exit1("check_custom_field_exists", "no Thoth Work ID field")
        ELSE /\ pc' = "search_articles"
             /\ UNCHANGED <<endVars, log>>
    /\ UNCHANGED <<argVars, callVars, platformVars, idVars, loopVars, uploadVars, histVars>>

\* the articles the platform's search finds for a work id
SearchResults(w) ==
    {a \in DOMAIN articles : articles[a].work = w
                             /\ articles[a].state \in {"draft", "public"}}

\* the duplicate test left out: the search result is never looked at
DuplicateFound_never(results) == FALSE

\* a single article found taken for no duplicate
DuplicateFound_more_than_one(results) == results > 1

\* fsuploader.py:55  "if len(search_results) > 0"
DuplicateFound(results) == results > 0

\* FigshareApi.search_articles (the search request) and the duplicate test
search_articles ==
    /\ pc = "search_articles"
    /\ \E r \in ListResponses :
        LET res == FigshareApi_issue_request("full", r) IN
        IF res # "ok"
        THEN /\ ExitOrRaise("search_articles", res)
             /\ UNCHANGED search_results
        ELSE /\ search_results' = Cardinality(SearchResults(work_id))
             /\ IF DuplicateFound(search_results')
                THEN Exit1("search_articles", "an item with this Work ID already exists")
                ELSE /\ pc' = "parse_metadata"
                     /\ UNCHANGED <<endVars, log>>
    /\ UNCHANGED <<argVars, callVars, platformVars, project_id, deposition_id, loopVars,
                   uploadVars, histVars>>

\* FigshareUploader.parse_metadata with get_figshare_type, get_figshare_licence,
\* get_figshare_authors and get_figshare_tags: "ok", or how it ends the run.
\* r answers the licence list request.
FigshareUploader_parse_metadata(m, r) ==
    IF ~m.longAbstract THEN <<"exit", "Work must have a Long Abstract">>
    ELSE IF ~m.workType THEN <<"exit", "Unsupported value for workType">>
    ELSE IF m.license = "none" THEN <<"exit", "Work must have a Licence">>
    ELSE IF FigshareApi_issue_request("full", r) = "DisseminationError"
         THEN <<"exit", "Getting licence list failed">>
    ELSE IF FigshareApi_issue_request("full", r) # "ok"
         THEN <<"raise", FigshareApi_issue_request("full", r)>>
    ELSE IF m.license = "malformed" THEN <<"exit", "Licence not in expected URL format">>
    ELSE IF m.license = "unsupported" THEN <<"exit", "Licence not supported">>
    ELSE IF m.mainContributions < 1 THEN <<"exit", "no Main Contribution">>
    ELSE IF m.keywords < 1 THEN <<"exit", "no Subject of type Keyword">>
    ELSE <<"ok", "ok">>

parse_metadata ==
    /\ pc = "parse_metadata"
    /\ \E r \in ListResponses :
        LET res == FigshareUploader_parse_metadata(metadata, r) IN
        CASE res[1] = "exit" -> Exit1("parse_metadata", res[2])
          [] res[1] = "raise" -> Raise("parse_metadata", res[2])
          [] OTHER -> /\ pc' = "fs_get_formatted_metadata"
                      /\ UNCHANGED <<endVars, log>>
    /\ UNCHANGED <<argVars, callVars, platformVars, idVars, loopVars, uploadVars, histVars>>

\* Uploader.get_data_from_url: the bytes, a DisseminationError, or an exception
\* of requests that it does not catch
FetchResults == {"ok", "DisseminationError", "ConnectionError"}

\* Uploader.get_formatted_metadata('json::thoth') as FigshareUploader calls it
fs_get_formatted_metadata ==
    /\ pc = "fs_get_formatted_metadata"
    /\ \E f \in FetchResults :
        IF f # "ok" THEN ExitOrRaise("get_formatted_metadata", f)
        ELSE /\ pc' = "get_publication_details"
             /\ UNCHANGED <<endVars, log>>
    /\ UNCHANGED <<argVars, callVars, platformVars, idVars, loopVars, uploadVars, histVars>>

\* the formats whose entry of PUB_FORMATS has the key 'content_type'; the
\* entry of DOCX spells it 'content-type'
HasContentType(format) == format # "DOCX"

\* fsuploader.py:76  "except DisseminationError as error: pass"
Swallowed(exc) == exc = "DisseminationError"

\* Uploader.get_publication_details(format) with get_data_from_url, for what
\* the work holds for that format: "ok" or the exception raised
Uploader_get_publication_details(format, state) ==
    IF state = "absent" THEN "DisseminationError"
    \* PUB_FORMATS[publication_type]['content_type']
    ELSE IF ~HasContentType(format) THEN "KeyError"
    ELSE CASE state = "timeout" -> "DisseminationError"    \* ConnectTimeout of head()
           [] state = "refused" -> "ConnectionError"       \* not caught
           [] state = "wrong_type" -> "DisseminationError"
           [] OTHER -> "ok"

\* fsuploader.py:71-77, the loop over PUB_FORMATS from format i on: fetch[i] is
\* what get_publication_details does for format i.  A DisseminationError is
\* passed over, any other exception ends the loop and the run.
RECURSIVE CollectPublications(_, _, _)
CollectPublications(fetch, i, acc) ==
    IF i > Len(PUB_FORMATS) THEN [crashed |-> "none", pubs |-> acc]
    ELSE IF fetch[i] = "ok"
         THEN CollectPublications(fetch, i + 1, Append(acc, PUB_FORMATS[i]))
    ELSE IF Swallowed(fetch[i])
         THEN CollectPublications(fetch, i + 1, acc)
    ELSE [crashed |-> fetch[i], pubs |-> acc]

\* the results of get_publication_details over PUB_FORMATS for this work
Fetches ==
    [i \in 1..Len(PUB_FORMATS) |->
        Uploader_get_publication_details(PUB_FORMATS[i], work_publications[i])]

\* the test for an empty publication list left out
NoPublications_never(pubs) == FALSE

\* fsuploader.py:78  "if len(publications) < 1"
NoPublications(pubs) == Len(pubs) < 1

get_publication_details ==
    /\ pc = "get_publication_details"
    /\ LET c == CollectPublications(Fetches, 1, <<>>) IN
        IF c.crashed # "none"
        THEN /\ Raise("get_publication_details", c.crashed)
             /\ UNCHANGED publications
        ELSE IF NoPublications(c.pubs)
        THEN /\ Exit1("get_publication_details", "no suitable publication files found")
             /\ UNCHANGED publications
        ELSE /\ publications' = c.pubs
             /\ pc' = "create_project"
             /\ UNCHANGED <<endVars, log>>
    /\ UNCHANGED <<argVars, callVars, platformVars, idVars, pub_idx, article_id, locations,
                   done_steps, uploadVars, histVars>>


(* ---------------- Figshare: the container and its records -------------- *)

\* FigshareApi.create_project, called outside the try statement
create_project ==
    /\ pc = "create_project"
    /\ \E r \in Responses :
        LET res == FigshareApi_issue_request("keys", r) IN
        /\ projects' = IF Performed(r)
                       THEN Append(projects, [state |-> "draft", work |-> work_id])
                       ELSE projects
        /\ IF res = "ok"
           THEN /\ project_id' = Len(projects')
                /\ pub_idx' = 1
                /\ pc' = IF 1 <= Len(publications) THEN "create_article"
                         ELSE "publish_project"
                /\ UNCHANGED <<endVars, log>>
           ELSE /\ ExitOrRaise("create_project", res)
                /\ UNCHANGED <<project_id, pub_idx>>
    /\ mutations' = mutations \cup {"create_project"}
    /\ UNCHANGED <<argVars, callVars, articles, depositions, search_results, deposition_id,
                   publications, article_id, locations, done_steps, uploadVars, deletes>>

\* except clauses that report the failure and never call clean_up
Caught_no_clean_up(step, exc) ==
    /\ error' = exc
    /\ failed_at' = step
    /\ log' = IF exc = "DisseminationError" THEN Append(log, <<"ERROR", step>>) ELSE log
    /\ pc' = "done"
    /\ outcome' = IF exc = "DisseminationError" THEN "exit1" ELSE "raised"
    /\ raised' = IF exc = "DisseminationError" THEN raised ELSE exc

\* except clauses that issue the request again after a transport failure
Caught_retry_transport(step, exc) ==
    IF exc = "ConnectionError"
    THEN /\ pc' = pc
         /\ UNCHANGED <<error, failed_at, log, outcome, raised>>
    ELSE /\ error' = exc
         /\ failed_at' = step
         /\ log' = IF exc = "DisseminationError" THEN Append(log, <<"ERROR", step>>) ELSE log
         /\ pc' = "clean_up"
         /\ UNCHANGED <<outcome, raised>>

\* fsuploader.py:126-134, the two except clauses up to the call of clean_up:
\* a DisseminationError is logged, anything else is not; both go to clean_up
Caught(step, exc) ==
    /\ error' = exc
    /\ failed_at' = step
    /\ log' = IF exc = "DisseminationError" THEN Append(log, <<"ERROR", step>>) ELSE log
    /\ pc' = "clean_up"
    /\ UNCHANGED <<outcome, raised>>

\* FigshareApi.create_article, the request that creates the article
create_article ==
    /\ pc = "create_article"
    /\ \E r \in Responses :
        LET res == FigshareApi_issue_request("keys", r) IN
        /\ articles' = IF Performed(r)
                       THEN Append(articles, [project |-> project_id, state |-> "draft",
                                              work |-> work_id])
                       ELSE articles
        /\ IF res = "ok"
           THEN /\ article_id' = Len(articles')
                /\ done_steps' = Append(done_steps, <<"create_article", article_id'>>)
                /\ pc' = "remove_article_author"
                /\ UNCHANGED <<endVars, log>>
           ELSE /\ Caught("create_article", res)
                /\ UNCHANGED <<article_id, done_steps>>
    /\ mutations' = mutations \cup {"create_article"}
    /\ last_status' = <<"none", "none">>
    /\ polls' = <<0, 0>>
    /\ slept' = <<0, 0>>
    /\ UNCHANGED <<argVars, callVars, projects, depositions, idVars, publications, pub_idx,
                   locations, file_no, parts_left, tries, pub_file_id, traceVars,
                   deletes>>

\* create_article returning the article id whether or not the author was removed
AuthorRemovalFailed_ignored(res) == FALSE

\* fsuploader.py:465-469: any exception of remove_article_author leaves create_article
AuthorRemovalFailed(res) == res # "ok"

\* FigshareApi.remove_article_author, second half of create_article
remove_article_author ==
    /\ pc = "remove_article_author"
    /\ \E r \in Responses :
        LET res == FigshareApi_issue_request("none", r) IN
        IF AuthorRemovalFailed(res)
        THEN /\ Caught("remove_article_author", res)
             /\ UNCHANGED <<file_no, done_steps>>
        ELSE /\ file_no' = 1
             /\ done_steps' = IF res = "ok"
                              THEN Append(done_steps, <<"remove_article_author", article_id>>)
                              ELSE done_steps
             /\ pc' = "initiate_new_upload"
             /\ UNCHANGED <<endVars, log>>
    /\ mutations' = mutations \cup {"remove_article_author"}
    /\ UNCHANGED <<argVars, callVars, platformVars, idVars, publications, pub_idx, article_id,
                   locations, parts_left, tries,
                   last_status, polls, slept, pub_file_id, traceVars, deletes>>

(* ------------------------ Figshare: upload_file ----------------------- *)

\* upload_file: a step of the current file, and how it ended ("ok", "retry"
\* for a poll that is repeated, or the exception raised)
Issued(op, res) == Append(requests, <<op, res>>)

\* fsuploader.py:107-112: the name upload_file is given for the publication
\* file (file 1) and for the JSON metadata file (file 2) of the publication
UploadFileName(k) ==
    FileName(work_id, IF k = 1 THEN FileExtension(publications[pub_idx]) ELSE ".json")

\* FigshareApi.initiate_new_upload, the first step of upload_file: the record
\* of construct_file_info is the body of the request
initiate_new_upload ==
    /\ pc = "initiate_new_upload"
    /\ \E r \in Responses :
        LET res == FigshareApi_issue_request("keys", r) IN
        /\ requests' = <<<<"initiate_new_upload", res>>>>
        /\ file_info' = construct_file_info(file_bytes, UploadFileName(file_no))
        /\ IF res = "ok"
           THEN /\ pc' = "get_upload_url"
                /\ UNCHANGED <<endVars, log>>
           ELSE Caught("upload_file", res)
    /\ parts' = <<>>
    /\ puts' = <<>>
    /\ mutations' = mutations \cup {"initiate_new_upload"}
    /\ UNCHANGED <<argVars, callVars, platformVars, idVars, loopVars, file_no, parts_left, tries,
                   last_status, polls, slept, pub_file_id, deletes>>

\* FigshareApi.get_upload_url
get_upload_url ==
    /\ pc = "get_upload_url"
    /\ \E r \in Responses :
        LET res == FigshareApi_issue_request("keys", r) IN
        /\ requests' = Issued("get_upload_url", res)
        /\ IF res = "ok"
           THEN /\ pc' = "upload_data"
                /\ UNCHANGED <<endVars, log>>
           ELSE Caught("upload_file", res)
    /\ UNCHANGED <<argVars, callVars, platformVars, idVars, loopVars, file_no, parts_left, tries,
                   last_status, polls, slept, pub_file_id, parts, puts, file_info, histVars>>

\* upload_file going from the transfer straight to the status poll
AfterParts_skip == "check_upload_status"

\* fsuploader.py:528-530: when upload_data has returned, complete_upload
AfterParts == "complete_upload"

\* FigshareApi.upload_data, the request for the list of parts
upload_data ==
    /\ pc = "upload_data"
    /\ \E r \in Responses :
        LET res == FigshareApi_issue_request("keys", r) IN
        /\ requests' = Issued("upload_data", res)
        /\ IF res = "ok"
           THEN /\ parts' = upload_plan
                /\ parts_left' = Len(upload_plan)
                /\ pc' = IF Len(upload_plan) > 0 THEN "upload_part" ELSE AfterParts
                /\ UNCHANGED <<endVars, log>>
           ELSE /\ Caught("upload_file", res)
                /\ UNCHANGED <<parts, parts_left>>
    /\ UNCHANGED <<argVars, callVars, platformVars, idVars, loopVars, file_no, tries,
                   last_status, polls, slept, pub_file_id, puts, file_info, histVars>>

\* io.BytesIO: seek(start), then read(n).  A negative n reads to the end.
BytesIO_read(bytes, start, n) ==
    LET end == IF n < 0 \/ start + n > Len(bytes) THEN Len(bytes) ELSE start + n
    IN SubSeq(bytes, start + 1, end)

\* FigshareApi.upload_part: the PUT request, to {upload_url}/{partNo}, and its body
FigshareApi_upload_part(bytes, part) ==
    [partNo |-> part.partNo,
     data |-> BytesIO_read(bytes, part.startOffset,
                           part.endOffset - part.startOffset + 1)]

\* the loop that takes the list from its end
NextPart_reversed(list, left) == list[left]

\* fsuploader.py:585  "for part in parts": the part that is next when `left`
\* parts of the list are still to be sent
NextPart(list, left) == list[Len(list) - left + 1]

\* a failed PUT that is passed over
PartFailed_ignored(res) == FALSE

\* fsuploader.py:586-589, 597-600: any exception of the PUT leaves the loop
PartFailed(res) == res # "ok"

\* FigshareApi.upload_part, for the next part of the list
upload_part ==
    /\ pc = "upload_part"
    /\ \E r \in Responses :
        LET res == FigshareApi_issue_request("none", r) IN
        /\ requests' = Issued("upload_part", res)
        /\ IF PartFailed(res)
           THEN /\ Caught("upload_file", res)
                /\ UNCHANGED parts_left
           ELSE /\ parts_left' = parts_left - 1
                /\ pc' = IF parts_left > 1 THEN "upload_part" ELSE AfterParts
                /\ UNCHANGED <<endVars, log>>
    /\ puts' = Append(puts, FigshareApi_upload_part(file_bytes, NextPart(parts, parts_left)))
    /\ mutations' = mutations \cup {"upload_part"}
    /\ UNCHANGED <<argVars, callVars, platformVars, idVars, loopVars, file_no, tries,
                   last_status, polls, slept, pub_file_id, parts, file_info, deletes>>

\* FigshareApi.complete_upload; the Part list of upload_data is gone by now
complete_upload ==
    /\ pc = "complete_upload"
    /\ \E r \in Responses :
        LET res == FigshareApi_issue_request("none", r) IN
        /\ requests' = Issued("complete_upload", res)
        /\ IF res = "ok"
           THEN /\ tries' = 0
                /\ pc' = "check_upload_status"
                /\ UNCHANGED <<endVars, log>>
           ELSE /\ Caught("upload_file", res)
                /\ UNCHANGED tries
    /\ parts' = <<>>
    /\ puts' = <<>>
    /\ mutations' = mutations \cup {"complete_upload"}
    /\ UNCHANGED <<argVars, callVars, platformVars, idVars, loopVars, file_no, parts_left,
                   last_status, polls, slept, pub_file_id, file_info, deletes>>

\* the statuses the platform reports for an uploaded file; "unknown" is any
\* string the code does not name
Statuses == {"created", "ic_failure", "ic_checking", "ic_success",
             "moving_to_final", "available", "unknown"}

\* a match statement that fails open: whatever it does not name counts as success
StatusVerdict_open(status, t) ==
    CASE status = "ic_checking" -> IF t + 1 <= MaxTries THEN "sleep" ELSE "break"
      [] OTHER -> "break"

\* a match statement that polls again on a status it does not name
StatusVerdict_retry_unknown(status, t) ==
    CASE status \in {"available", "moving_to_final", "ic_success"} -> "break"
      [] OTHER -> IF t + 1 <= MaxTries THEN "sleep" ELSE "break"

\* "if tries < 3": one retry fewer than the bound
StatusVerdict_one_less(status, t) ==
    CASE status \in {"available", "moving_to_final", "ic_success"} -> "break"
      [] status = "ic_checking" -> IF t + 1 < MaxTries THEN "sleep" ELSE "break"
      [] OTHER -> "raise"

\* "if tries <= 4": one more retry than the bound
StatusVerdict_one_more(status, t) ==
    CASE status \in {"available", "moving_to_final", "ic_success"} -> "break"
      [] status = "ic_checking" -> IF t + 1 <= MaxTries + 1 THEN "sleep" ELSE "break"
      [] OTHER -> "raise"

\* fsuploader.py:639-652, the match statement of check_upload_status, with
\* t the value of tries before it: "break", "sleep" (poll again) or "raise"
StatusVerdict(status, t) ==
    CASE status \in {"available", "moving_to_final", "ic_success"} -> "break"
      [] status = "ic_checking" -> IF t + 1 <= MaxTries THEN "sleep" ELSE "break"
      [] OTHER -> "raise"

\* the id the platform gives file k of article a
FileId(a, k) == 2 * (a - 1) + k

\* the project published from inside the loop, in place of the article
AfterUpload_early(k) == IF k = 1 THEN "initiate_new_upload" ELSE "publish_project"

\* fsuploader.py:107-114: after the publication file the JSON file, then publish
AfterUpload(k) == IF k = 1 THEN "initiate_new_upload" ELSE "publish_article"

\* the id returned for the JSON metadata file kept as well
KeepsFileId_both(k) == TRUE

\* fsuploader.py:107-112: the id that upload_file returns is assigned to
\* pub_file_id for the publication file and dropped for the JSON metadata file
KeepsFileId(k) == k = 1

\* fsuploader.py:107-112: the two calls of upload_file for an article
UploadStep(k) == IF k = 1 THEN "upload_publication_file" ELSE "upload_metadata_file"

\* FigshareApi.check_upload_status, one turn of its loop
check_upload_status ==
    /\ pc = "check_upload_status"
    /\ \E r \in Responses, status \in Statuses :
        LET res == FigshareApi_issue_request("keys", r)
            verdict == StatusVerdict(status, tries) IN
        /\ polls' = [polls EXCEPT ![file_no] = @ + 1]
        /\ slept' = IF res = "ok" /\ verdict = "sleep"
                     THEN [slept EXCEPT ![file_no] = @ + SleepSeconds]
                     ELSE slept
        /\ requests' = Issued("check_upload_status",
                              IF res # "ok" THEN res
                              ELSE CASE verdict = "raise" -> "DisseminationError"
                                     [] verdict = "sleep" -> "retry"
                                     [] OTHER -> "ok")
        /\ IF res # "ok"
           THEN /\ Caught("upload_file", res)
                /\ UNCHANGED <<tries, last_status, file_no, pub_file_id, done_steps>>
           ELSE /\ last_status' = [last_status EXCEPT ![file_no] = status]
                /\ CASE verdict = "raise" ->
                          /\ Caught("upload_file", "DisseminationError")
                          /\ UNCHANGED <<tries, file_no, pub_file_id, done_steps>>
                     [] verdict = "sleep" ->
                          /\ tries' = tries + 1
                          /\ pc' = "check_upload_status"
                          /\ UNCHANGED <<endVars, log, file_no, pub_file_id, done_steps>>
                     [] OTHER ->
                          /\ tries' = 0
                          /\ pub_file_id' = IF KeepsFileId(file_no)
                                            THEN FileId(article_id, file_no)
                                            ELSE pub_file_id
                          /\ file_no' = IF file_no = 1 THEN 2 ELSE file_no
                          /\ done_steps' = Append(done_steps, <<UploadStep(file_no), article_id>>)
                          /\ pc' = AfterUpload(file_no)
                          /\ log' = IF status = "ic_checking"
                                    THEN Append(log, <<"DEBUG", "could not confirm success">>)
                                    ELSE log
                          /\ UNCHANGED endVars
    /\ UNCHANGED <<argVars, callVars, platformVars, idVars, publications, pub_idx, article_id,
                   locations, parts_left, parts, puts, file_info, histVars>>


(* --------------------- Figshare: publish and clean up ------------------ *)

\* fsuploader.py:98, the for statement: the next publication, or past the loop
LoopNext(i) == IF i <= Len(publications) THEN "create_article" ELSE "publish_project"

\* FigshareApi.publish_article and the Location built after it
publish_article ==
    /\ pc = "publish_article"
    /\ \E r \in Responses :
        LET res == FigshareApi_issue_request("none", r) IN
        /\ articles' = IF Performed(r)
                       THEN [articles EXCEPT ![article_id].state = "public"]
                       ELSE articles
        /\ IF res = "ok"
           THEN /\ locations' = Append(locations,
                       [publication |-> publications[pub_idx],
                        article |-> article_id, file |-> pub_file_id])
                /\ pub_idx' = pub_idx + 1
                /\ done_steps' = Append(done_steps, <<"publish_article", article_id>>)
                /\ pc' = LoopNext(pub_idx + 1)
                /\ UNCHANGED <<endVars, log>>
           ELSE /\ Caught("publish_article", res)
                /\ UNCHANGED <<locations, pub_idx, done_steps>>
    /\ mutations' = mutations \cup {"publish_article"}
    /\ UNCHANGED <<argVars, callVars, projects, depositions, idVars, publications, article_id,
                   uploadVars, deletes>>

\* FigshareApi.publish_project, inside the try statement, and the return
publish_project ==
    /\ pc = "publish_project"
    /\ \E r \in Responses :
        LET res == FigshareApi_issue_request("none", r) IN
        /\ projects' = IF Performed(r)
                       THEN [projects EXCEPT ![project_id].state = "public"]
                       ELSE projects
        /\ IF res = "ok"
           THEN /\ pc' = "done"
                /\ outcome' = "returned"
                /\ log' = Append(log, <<"INFO", "Successfully uploaded">>)
                /\ UNCHANGED <<error, failed_at, raised>>
           ELSE Caught("publish_project", res)
    /\ mutations' = mutations \cup {"publish_project"}
    /\ UNCHANGED <<argVars, callVars, articles, depositions, idVars, loopVars, uploadVars, deletes>>

\* fsuploader.py:504-505: the platform deletes a project unless the project
\* or one of its articles is published
ProjectDeletable(p) ==
    /\ projects[p].state = "draft"
    /\ \A a \in DOMAIN articles :
          articles[a].project = p => articles[a].state # "public"

\* FigshareApi.clean_up / ZenodoApi.clean_up: a DisseminationError of the
\* DELETE request is logged and swallowed, any other exception leaves clean_up
clean_up_raises(res) == IF res \in {"ok", "DisseminationError"} THEN "none" ELSE res

\* the except clauses after the call of clean_up: sys.exit(1) for a
\* DisseminationError, a bare raise otherwise; an exception of clean_up
\* itself leaves the handler before either
HandlerEnd(cleanup_res) ==
    /\ pc' = "done"
    /\ log' = IF cleanup_res = "DisseminationError"
              THEN Append(log, <<"ERROR", "Failed to delete incomplete container">>)
              ELSE log
    /\ IF clean_up_raises(cleanup_res) # "none"
       THEN /\ outcome' = "raised"
            /\ raised' = clean_up_raises(cleanup_res)
       ELSE IF error = "DisseminationError"
       THEN /\ outcome' = "exit1"
            /\ raised' = raised
       ELSE /\ outcome' = "raised"
            /\ raised' = error
    /\ UNCHANGED <<error, failed_at>>

\* clean_up handed the id of another project
FigshareCleanUpArg_other == project_id - 1

\* fsuploader.py:129,133: the argument of clean_up
FigshareCleanUpArg == project_id

\* FigshareApi.clean_up called by the except clauses, and the end of the run
clean_up ==
    /\ pc = "clean_up"
    /\ uploader = "Figshare"
    /\ \E r \in {x \in Responses : Performed(x) => ProjectDeletable(FigshareCleanUpArg)} :
        LET res == FigshareApi_issue_request("none", r) IN
        /\ projects' = IF Performed(r)
                       THEN [projects EXCEPT ![FigshareCleanUpArg].state = "deleted"]
                       ELSE projects
        /\ articles' = IF Performed(r)
                       THEN [a \in DOMAIN articles |->
                               IF articles[a].project = FigshareCleanUpArg
                               THEN [articles[a] EXCEPT !.state = "deleted"]
                               ELSE articles[a]]
                       ELSE articles
        /\ HandlerEnd(res)
    /\ deletes' = Append(deletes, FigshareCleanUpArg)
    /\ mutations' = mutations \cup {"clean_up"}
    /\ UNCHANGED <<argVars, callVars, depositions, idVars, loopVars, uploadVars>>

(* ------------------------------- Zenodo -------------------------------- *)

\* ZenodoApi.issue_request: "ok" or the name of the exception raised
ZenodoApi_issue_request(return_json, r) ==
    IF r.transport THEN "ConnectionError"
    ELSE IF ~r.status_ok THEN
        \* json['errors'] on a JSON array: neither except clause catches it
        IF r.body = "array" THEN "TypeError" ELSE "DisseminationError"
    ELSE IF return_json /\ r.body = "not_json" THEN "DisseminationError"
    ELSE "ok"

\* ZenodoApi.issue_request: the DisseminationError it raises for a status
\* that is not the expected one.  The message of the body (of its first
\* error, or else its own) is appended whole.
ZenodoApi_error_message(status_code, r) ==
    IF r.status_ok
    THEN [status |-> 0, text |-> "None"]      \* 'Zenodo API returned unexpected response'
    ELSE [status |-> status_code,
          text |-> IF r.body \in {"object", "object_missing"} THEN r.message ELSE "None"]

\* Uploader.get_formatted_metadata('json::thoth') as ZenodoUploader calls it
zn_get_formatted_metadata ==
    /\ pc = "zn_get_formatted_metadata"
    /\ \E f \in FetchResults :
        IF f # "ok" THEN ExitOrRaise("get_formatted_metadata", f)
        ELSE /\ pc' = "get_publication_bytes"
             /\ UNCHANGED <<endVars, log>>
    /\ UNCHANGED <<argVars, callVars, platformVars, idVars, loopVars, uploadVars, histVars>>

\* Uploader.get_publication_bytes: ZenodoUploader calls it, uploader.py does
\* not define it.  Modelled from its call (the caller catches a
\* DisseminationError, logs it and exits) and from the content source of the
\* specification: the bytes of the file, a dissemination error when the
\* format is absent, or an exception of the request that nothing catches.
Uploader_get_publication_bytes == {"ok", "DisseminationError", "ConnectionError"}

\* zenodouploader.py:35-41  the PDF is retrieved, or the run ends
get_publication_bytes ==
    /\ pc = "get_publication_bytes"
    /\ \E f \in Uploader_get_publication_bytes :
        IF f # "ok"
        THEN /\ ExitOrRaise("get_publication_bytes", f)
             /\ UNCHANGED publications
        ELSE /\ publications' = <<"PDF">>
             /\ pc' = "zn_parse_metadata"
             /\ UNCHANGED <<endVars, log>>
    /\ UNCHANGED <<argVars, callVars, platformVars, idVars, pub_idx, article_id, locations,
                   done_steps, uploadVars, histVars>>

\* ZenodoUploader.parse_metadata with get_zenodo_creators, get_zenodo_licence,
\* ZenodoApi.search_licences and get_zenodo_relations, in the order the
\* dictionary display evaluates them.  r answers the licence search.
ZenodoUploader_parse_metadata(m, r) ==
    IF ~m.longAbstract THEN <<"exit", "Work must have a Long Abstract">>
    ELSE IF ~m.doi THEN <<"exit", "Work must have a DOI">>
    ELSE IF m.mainContributions < 1 THEN <<"exit", "no Main Contribution">>
    ELSE IF m.license = "none" THEN <<"exit", "Work must have a Licence">>
    ELSE IF m.license = "malformed" THEN <<"exit", "Licence not in expected URL format">>
    ELSE IF ZenodoApi_issue_request(TRUE, r) = "DisseminationError"
         THEN <<"exit", "Searching for licence failed">>
    ELSE IF ZenodoApi_issue_request(TRUE, r) # "ok"
         THEN <<"raise", ZenodoApi_issue_request(TRUE, r)>>
    ELSE IF r.body = "object_missing" THEN <<"exit", "Searching for licence failed">>
    ELSE IF r.body = "array" THEN <<"raise", "TypeError">>
    ELSE IF m.license = "unsupported" THEN <<"exit", "Licence not supported">>
    ELSE IF ~m.relations THEN <<"raise", "NotImplementedError">>
    ELSE <<"ok", "ok">>

zn_parse_metadata ==
    /\ pc = "zn_parse_metadata"
    /\ \E r \in Responses :
        LET res == ZenodoUploader_parse_metadata(metadata, r) IN
        CASE res[1] = "exit" -> Exit1("parse_metadata", res[2])
          [] res[1] = "raise" -> Raise("parse_metadata", res[2])
          [] OTHER -> /\ pc' = "create_deposition"
                      /\ UNCHANGED <<endVars, log>>
    /\ UNCHANGED <<argVars, callVars, platformVars, idVars, loopVars, uploadVars, histVars>>

\* ZenodoApi.create_deposition, called outside the try statement
create_deposition ==
    /\ pc = "create_deposition"
    /\ \E r \in Responses :
        LET res == ZenodoApi_issue_request(TRUE, r) IN
        /\ depositions' = IF Performed(r)
                          THEN Append(depositions, [state |-> "draft", work |-> work_id])
                          ELSE depositions
        /\ IF res # "ok"
           THEN /\ ExitOrRaise("create_deposition", res)
                /\ UNCHANGED <<deposition_id, file_no>>
           ELSE IF r.body = "object_missing"      \* KeyError: logged, sys.exit(1)
           THEN /\ Exit1("create_deposition", "unexpected response")
                /\ UNCHANGED <<deposition_id, file_no>>
           ELSE IF r.body = "array"               \* response['id'] on a JSON array
           THEN /\ Raise("create_deposition", "TypeError")
                /\ UNCHANGED <<deposition_id, file_no>>
           ELSE /\ deposition_id' = Len(depositions')
                /\ file_no' = 1
                /\ pc' = "zn_upload_file"
                /\ UNCHANGED <<endVars, log>>
    /\ mutations' = mutations \cup {"create_deposition"}
    /\ UNCHANGED <<argVars, callVars, projects, articles, search_results, project_id, loopVars,
                   parts_left, tries, last_status, polls, slept, pub_file_id, traceVars,
                   deletes>>

\* publish_deposition called as soon as the PDF is uploaded
ZenodoAfterUpload_early(k) == "publish_deposition"

\* zenodouploader.py:49-53: after the PDF the JSON metadata, then publish_deposition
ZenodoAfterUpload(k) == IF k = 1 THEN "zn_upload_file" ELSE "publish_deposition"

\* ZenodoApi.upload_file: the PDF (file 1), then the JSON metadata (file 2)
zn_upload_file ==
    /\ pc = "zn_upload_file"
    /\ \E r \in Responses :
        LET res == ZenodoApi_issue_request(FALSE, r) IN
        /\ zn_requests' = Append(zn_requests, <<"upload_file", res>>)
        /\ IF res = "ok"
           THEN /\ file_no' = IF file_no = 1 THEN 2 ELSE file_no
                /\ done_steps' = Append(done_steps, <<UploadStep(file_no), deposition_id>>)
                /\ pc' = ZenodoAfterUpload(file_no)
                /\ UNCHANGED <<endVars, log>>
           ELSE /\ Caught("upload_file", res)
                /\ UNCHANGED <<file_no, done_steps>>
    /\ mutations' = mutations \cup {"upload_file"}
    /\ UNCHANGED <<argVars, request, result, platformVars, idVars, publications, pub_idx,
                   article_id, locations, parts_left, tries, last_status, polls, slept, pub_file_id,
                   traceVars, deletes>>

\* ZenodoApi.publish_deposition: "ok" or the exception it raises
ZenodoApi_publish_deposition(r) ==
    IF ZenodoApi_issue_request(TRUE, r) # "ok" THEN ZenodoApi_issue_request(TRUE, r)
    ELSE CASE r.body = "object" -> "ok"
           [] r.body = "object_missing" -> "DisseminationError"   \* KeyError
           [] OTHER -> "TypeError"               \* response['links'] on a JSON array

\* ZenodoApi.publish_deposition inside the try statement, and the return
publish_deposition ==
    /\ pc = "publish_deposition"
    /\ \E r \in Responses :
        LET res == ZenodoApi_publish_deposition(r) IN
        /\ depositions' = IF Performed(r)
                          THEN [depositions EXCEPT ![deposition_id].state = "public"]
                          ELSE depositions
        /\ zn_requests' = Append(zn_requests, <<"publish_deposition", res>>)
        /\ IF res = "ok"
           THEN /\ pc' = "done"
                /\ outcome' = "returned"
                /\ done_steps' = Append(done_steps, <<"publish_deposition", deposition_id>>)
                /\ log' = Append(log, <<"INFO", "Successfully uploaded">>)
                /\ UNCHANGED <<error, failed_at, raised>>
           ELSE /\ Caught("publish_deposition", res)
                /\ UNCHANGED done_steps
    /\ mutations' = mutations \cup {"publish_deposition"}
    /\ UNCHANGED <<argVars, request, result, projects, articles, idVars, publications, pub_idx,
                   article_id, locations, uploadVars, deletes>>

\* zenodouploader.py:390-391: the platform deletes a deposition unless it is published
DepositionDeletable(d) == depositions[d].state = "draft"

\* zenodouploader.py:57,61: the argument of clean_up
ZenodoCleanUpArg == deposition_id

\* ZenodoApi.clean_up called by the except clauses, and the end of the run
zn_clean_up ==
    /\ pc = "clean_up"
    /\ uploader = "Zenodo"
    /\ \E r \in {x \in Responses : Performed(x) => DepositionDeletable(ZenodoCleanUpArg)} :
        LET res == ZenodoApi_issue_request(FALSE, r) IN
        /\ depositions' = IF Performed(r)
                          THEN [depositions EXCEPT ![ZenodoCleanUpArg].state = "deleted"]
                          ELSE depositions
        /\ HandlerEnd(res)
    /\ deletes' = Append(deletes, ZenodoCleanUpArg)
    /\ mutations' = mutations \cup {"clean_up"}
    /\ UNCHANGED <<argVars, callVars, projects, articles, idVars, loopVars, uploadVars>>

(* ----------------------------- Uploader.run --------------------------- *)

\* Locations printed however upload_to_platform ended
PrintsLocations_always(out) == TRUE

\* uploader.py:95-97: the statements after the call are reached only when
\* upload_to_platform returned
PrintsLocations(out) == out = "returned"

\* uploader.py:95-99  Uploader.run after upload_to_platform: every Location
\* returned is printed.  FigshareUploader returns its list,
\* ZenodoUploader.upload_to_platform has no return statement (None).
run ==
    /\ pc = "done"
    /\ PrintsLocations(outcome)
    /\ pc' = "finished"
    /\ stdout' = IF uploader = "Figshare" THEN locations ELSE <<>>
    /\ UNCHANGED <<uploader, work_id, metadata, file_bytes, upload_plan, custom_field,
                   work_publications, runs, toolVars, callVars, platformVars, idVars, loopVars,
                   uploadVars, endVars, histVars, log>>

(* --------------------------- specification ---------------------------- *)

Next ==
    \/ check_custom_field_exists
    \/ search_articles
    \/ parse_metadata
    \/ fs_get_formatted_metadata
    \/ get_publication_details
    \/ create_project
    \/ create_article
    \/ remove_article_author
    \/ initiate_new_upload
    \/ get_upload_url
    \/ upload_data
    \/ upload_part
    \/ complete_upload
    \/ check_upload_status
    \/ publish_article
    \/ publish_project
    \/ clean_up
    \/ zn_get_formatted_metadata
    \/ get_publication_bytes
    \/ zn_parse_metadata
    \/ create_deposition
    \/ zn_upload_file
    \/ publish_deposition
    \/ zn_clean_up
    \/ run

Spec == Init /\ [][Next]_vars

(* ---------------------- issue_request on its own ----------------------- *)

\* A client that is constructed and makes one call of issue_request, for
\* every call and every response to it.
InitIssueRequest ==
    /\ request \in Calls
    /\ result = [outcome |-> "pending", error |-> NoError]
    /\ zn_requests = <<>>
    /\ uploader = request.api
    /\ work_id = 1
    /\ metadata = IF uploader = "Figshare"
                  THEN [longAbstract |-> TRUE, workType |-> TRUE, license |-> "supported",
                        mainContributions |-> 1, keywords |-> 1]
                  ELSE [longAbstract |-> TRUE, doi |-> TRUE, mainContributions |-> 1,
                        license |-> "supported", relations |-> TRUE]
    /\ file_bytes = OneByte
    /\ upload_plan = OnePart
    /\ custom_field = (uploader = "Figshare")
    /\ work_publications = OnlyPDF
    /\ stdout = <<>>
    /\ runs = NoRuns
    /\ ToolsIdle
    /\ parts = <<>>
    /\ puts = <<>>
    /\ requests = <<>>
    /\ file_info = NoFileInfo
    /\ search_results = -1
    /\ pc = FirstStep(uploader)
    /\ projects = [w \in Works |-> EarlierContainer({}, w)]
    /\ articles = [w \in Works |-> EarlierArticle({}, w)]
    /\ depositions = [w \in Works |-> EarlierContainer({}, w)]
    /\ project_id = 0
    /\ deposition_id = 0
    /\ publications = <<>>
    /\ pub_idx = 0
    /\ article_id = 0
    /\ file_no = 1
    /\ parts_left = 0
    /\ tries = 0
    /\ last_status = <<"none", "none">>
    /\ polls = <<0, 0>>
    /\ slept = <<0, 0>>
    /\ pub_file_id = 0
    /\ locations = <<>>
    /\ done_steps = <<>>
    /\ error = "none"
    /\ failed_at = "none"
    /\ outcome = "running"
    /\ raised = "none"
    /\ mutations = {}
    /\ deletes = <<>>
    /\ log = <<>>

\* FigshareApi.issue_request
fs_issue_request ==
    /\ request.api = "Figshare"
    /\ result.outcome = "pending"
    /\ LET res == FigshareApi_issue_request(request.expects, Answer(request)) IN
        result' = [outcome |-> res,
                   error |-> IF res = "DisseminationError"
                             THEN FigshareApi_error_message(request.response.status_code,
                                                            request.expects, Answer(request))
                             ELSE NoError]
    /\ UNCHANGED <<argVars, platformVars, idVars, loopVars, uploadVars, endVars,
                   histVars, pc, log, request, zn_requests>>

\* ZenodoApi.issue_request
zn_issue_request ==
    /\ request.api = "Zenodo"
    /\ result.outcome = "pending"
    /\ LET res == ZenodoApi_issue_request(request.expects # "none", Answer(request)) IN
        result' = [outcome |-> res,
                   error |-> IF res = "DisseminationError"
                             THEN ZenodoApi_error_message(request.response.status_code,
                                                          Answer(request))
                             ELSE NoError]
    /\ UNCHANGED <<argVars, platformVars, idVars, loopVars, uploadVars, endVars,
                   histVars, pc, log, request, zn_requests>>

NextIssueRequest ==
    \/ fs_issue_request
    \/ zn_issue_request

SpecIssueRequest == InitIssueRequest /\ [][NextIssueRequest]_vars

(* ------------------- upload_file on every file and plan ---------------- *)

\* the steps of an upload_file that transferred n Parts and was reported
\* available at the first poll
UploadedTrace(n) ==
    <<<<"initiate_new_upload", "ok">>, <<"get_upload_url", "ok">>, <<"upload_data", "ok">>>>
    \o [i \in 1..n |-> <<"upload_part", "ok">>]
    \o <<<<"complete_upload", "ok">>, <<"check_upload_status", "ok">>>>

\* FigshareApi.upload_file taken from its second call in a run of the Figshare
\* uploader (the project and the first article are created, the publication
\* file is uploaded and available, the JSON metadata file is next), for every
\* file of up to MaxLen bytes and every Part list the upload service may hold
\* for it.
InitUploadFile ==
    /\ uploader = "Figshare"
    /\ work_id = 1
    /\ metadata = [longAbstract |-> TRUE, workType |-> TRUE, license |-> "supported",
                   mainContributions |-> 1, keywords |-> 1]
    /\ file_bytes \in Contents
    /\ upload_plan \in PartLists(Len(file_bytes))
    /\ custom_field = TRUE
    /\ work_publications = OnlyPDF
    /\ stdout = <<>>
    /\ runs = NoRuns
    /\ ToolsIdle
    /\ parts = <<>>
    /\ puts = <<>>
    /\ requests = UploadedTrace(Len(upload_plan))
    /\ file_info = construct_file_info(file_bytes, FileName(1, FileExtension("PDF")))
    /\ request = NoRequest
    /\ result = NoResult
    /\ zn_requests = <<>>
    /\ search_results = 0
    /\ pc = "initiate_new_upload"
    /\ projects = Append([w \in Works |-> EarlierContainer({}, w)],
                         [state |-> "draft", work |-> 1])
    /\ articles = Append([w \in Works |-> EarlierArticle({}, w)],
                         [project |-> NumWorks + 1, state |-> "draft", work |-> 1])
    /\ depositions = [w \in Works |-> EarlierContainer({}, w)]
    /\ project_id = NumWorks + 1
    /\ deposition_id = 0
    /\ publications = <<"PDF">>
    /\ pub_idx = 1
    /\ article_id = NumWorks + 1
    /\ file_no = 2
    /\ parts_left = 0
    /\ tries = 0
    /\ last_status = <<"available", "none">>
    /\ polls = <<1, 0>>
    /\ slept = <<0, 0>>
    /\ pub_file_id = FileId(NumWorks + 1, 1)
    /\ locations = <<>>
    /\ done_steps = <<<<"create_article", NumWorks + 1>>,
                      <<"remove_article_author", NumWorks + 1>>,
                      <<"upload_publication_file", NumWorks + 1>>>>
    /\ error = "none"
    /\ failed_at = "none"
    /\ outcome = "running"
    /\ raised = "none"
    /\ mutations = {"create_project", "create_article", "remove_article_author",
                    "initiate_new_upload", "complete_upload"}
                   \cup (IF Len(upload_plan) > 0 THEN {"upload_part"} ELSE {})
    /\ deletes = <<>>
    /\ log = <<>>

\* the steps of upload_file, and the cleanup its failure leads to
NextUploadFile ==
    \/ initiate_new_upload
    \/ get_upload_url
    \/ upload_data
    \/ upload_part
    \/ complete_upload
    \/ check_upload_status
    \/ clean_up

SpecUploadFile == InitUploadFile /\ [][NextUploadFile]_vars

(* ------------- the registration of a file and its transfer ------------- *)

\* the Part list splits a file of the given size from its first byte to its
\* last, each Part starting where the one before it ended
Covers(list, size) ==
    IF list = <<>> THEN size = 0
    ELSE /\ list[1].startOffset = 0
         /\ list[Len(list)].endOffset = size - 1
         /\ \A i \in 1..(Len(list) - 1) : list[i + 1].startOffset = list[i].endOffset + 1

\* The two calls of upload_file for the first publication of a run of the
\* Figshare uploader (the project and the article are created), for every
\* work id, each of the first MaxPubs formats as that of the publication,
\* every file of up to MaxLen bytes and every Part list that splits such a file.
InitFileInfo ==
    /\ uploader = "Figshare"
    /\ work_id \in Works
    /\ metadata = [longAbstract |-> TRUE, workType |-> TRUE, license |-> "supported",
                   mainContributions |-> 1, keywords |-> 1]
    /\ file_bytes \in Contents
    /\ upload_plan \in {list \in PartLists(Len(file_bytes)) : Covers(list, Len(file_bytes))}
    /\ custom_field = TRUE
    /\ \E i \in 1..MaxPubs :
          /\ work_publications = [j \in 1..Len(PUB_FORMATS) |->
                                     IF j = i THEN "retrievable" ELSE "absent"]
          /\ publications = <<PUB_FORMATS[i]>>
    /\ stdout = <<>>
    /\ runs = NoRuns
    /\ ToolsIdle
    /\ parts = <<>>
    /\ puts = <<>>
    /\ requests = <<>>
    /\ file_info = NoFileInfo
    /\ request = NoRequest
    /\ result = NoResult
    /\ zn_requests = <<>>
    /\ search_results = 0
    /\ pc = "initiate_new_upload"
    /\ projects = Append([w \in Works |-> EarlierContainer({}, w)],
                         [state |-> "draft", work |-> work_id])
    /\ articles = Append([w \in Works |-> EarlierArticle({}, w)],
                         [project |-> NumWorks + 1, state |-> "draft", work |-> work_id])
    /\ depositions = [w \in Works |-> EarlierContainer({}, w)]
    /\ project_id = NumWorks + 1
    /\ deposition_id = 0
    /\ pub_idx = 1
    /\ article_id = NumWorks + 1
    /\ file_no = 1
    /\ parts_left = 0
    /\ tries = 0
    /\ last_status = <<"none", "none">>
    /\ polls = <<0, 0>>
    /\ slept = <<0, 0>>
    /\ pub_file_id = 0
    /\ locations = <<>>
    /\ done_steps = <<<<"create_article", NumWorks + 1>>,
                      <<"remove_article_author", NumWorks + 1>>>>
    /\ error = "none"
    /\ failed_at = "none"
    /\ outcome = "running"
    /\ raised = "none"
    /\ mutations = {"create_project", "create_article", "remove_article_author"}
    /\ deletes = <<>>
    /\ log = <<>>

SpecFileInfo == InitFileInfo /\ [][NextUploadFile]_vars

(* ---------------- the publication files of every format ---------------- *)

\* A run of the Figshare uploader taken from the loop over PUB_FORMATS (the
\* search found nothing, the metadata parsed, the JSON metadata file was
\* retrieved), for a work with or without a publication in each of the
\* formats, up to the request that creates the project.
InitPublications ==
    /\ uploader = "Figshare"
    /\ work_id \in Works
    /\ metadata = [longAbstract |-> TRUE, workType |-> TRUE, license |-> "supported",
                   mainContributions |-> 1, keywords |-> 1]
    /\ file_bytes = OneByte
    /\ upload_plan = OnePart
    /\ custom_field = TRUE
    /\ work_publications \in WorkPublications(Len(PUB_FORMATS), PublicationStates)
    /\ stdout = <<>>
    /\ runs = NoRuns
    /\ ToolsIdle
    /\ parts = <<>>
    /\ puts = <<>>
    /\ requests = <<>>
    /\ file_info = NoFileInfo
    /\ request = NoRequest
    /\ result = NoResult
    /\ zn_requests = <<>>
    /\ search_results = 0
    /\ pc = "get_publication_details"
    /\ projects = [w \in Works |-> EarlierContainer({}, w)]
    /\ articles = [w \in Works |-> EarlierArticle({}, w)]
    /\ depositions = [w \in Works |-> EarlierContainer({}, w)]
    /\ project_id = 0
    /\ deposition_id = 0
    /\ publications = <<>>
    /\ pub_idx = 0
    /\ article_id = 0
    /\ file_no = 1
    /\ parts_left = 0
    /\ tries = 0
    /\ last_status = <<"none", "none">>
    /\ polls = <<0, 0>>
    /\ slept = <<0, 0>>
    /\ pub_file_id = 0
    /\ locations = <<>>
    /\ done_steps = <<>>
    /\ error = "none"
    /\ failed_at = "none"
    /\ outcome = "running"
    /\ raised = "none"
    /\ mutations = {}
    /\ deletes = <<>>
    /\ log = <<>>

NextPublications ==
    \/ get_publication_details
    \/ create_project

SpecPublications == InitPublications /\ [][NextPublications]_vars

(* ------------------- two runs against one platform -------------------- *)

\* Two runs of the Figshare uploader, each a process of its own with its own
\* FigshareUploader, interleaved request by request against one repository
\* that holds nothing yet.  Run a deposits work 1, run b the same work or
\* another.  Both works have valid metadata and one retrievable PDF, so that
\* the steps before create_project that do not address the repository pass;
\* the repository defines the field 'Thoth Work ID'.
InitTwoRuns ==
    /\ runs \in {rs \in [Runs -> {NewRun(w) : w \in 1..2}] : rs["a"].work_id = 1}
    /\ ToolsIdle
    /\ projects = [w \in Works |-> EarlierContainer({}, w)]
    /\ articles = [w \in Works |-> EarlierArticle({}, w)]
    /\ depositions = [w \in Works |-> EarlierContainer({}, w)]
    /\ uploader = "Figshare"
    /\ work_id = 1
    /\ metadata = [longAbstract |-> TRUE, workType |-> TRUE, license |-> "supported",
                   mainContributions |-> 1, keywords |-> 1]
    /\ file_bytes = OneByte
    /\ upload_plan = OnePart
    /\ custom_field = TRUE
    /\ work_publications = OnlyPDF
    /\ stdout = <<>>
    /\ parts = <<>>
    /\ puts = <<>>
    /\ requests = <<>>
    /\ file_info = NoFileInfo
    /\ request = NoRequest
    /\ result = NoResult
    /\ zn_requests = <<>>
    /\ search_results = -1
    /\ pc = "search_articles"
    /\ project_id = 0
    /\ deposition_id = 0
    /\ publications = <<>>
    /\ pub_idx = 0
    /\ article_id = 0
    /\ file_no = 1
    /\ parts_left = 0
    /\ tries = 0
    /\ last_status = <<"none", "none">>
    /\ polls = <<0, 0>>
    /\ slept = <<0, 0>>
    /\ pub_file_id = 0
    /\ locations = <<>>
    /\ done_steps = <<>>
    /\ error = "none"
    /\ failed_at = "none"
    /\ outcome = "running"
    /\ raised = "none"
    /\ mutations = {}
    /\ deletes = <<>>
    /\ log = <<>>

\* the variables of the single run, which the two runs leave alone
oneRunVars == <<envVars, toolVars, callVars, depositions, idVars, loopVars, uploadVars,
                endVars, histVars, pc, log>>

\* logging.error(...); sys.exit(1), or an exception that nothing catches
RunExitOrRaise(rn, step, res) ==
    [rn EXCEPT !.pc = "done", !.failed_at = step,
                !.outcome = IF res = "DisseminationError" THEN "exit1" ELSE "raised",
                !.raised = IF res = "DisseminationError" THEN "none" ELSE res]

\* fsuploader.py:126-134, the except clauses up to the call of clean_up
RunCaught(rn, step, exc) ==
    [rn EXCEPT !.pc = "clean_up", !.failed_at = step, !.error = exc]

\* a request of the run addressed to the id it holds
Touch(rn, op, id) == [rn EXCEPT !.touched = @ \cup {<<op, id>>}]

\* fsuploader.py:53-58  search_articles(self.work_id) and the duplicate test
run_search_articles(i) ==
    /\ runs[i].pc = "search_articles"
    /\ \E r \in ListResponses :
        LET res == FigshareApi_issue_request("full", r)
            found == Cardinality(SearchResults(runs[i].work_id)) IN
        runs' = [runs EXCEPT ![i] =
                    IF res # "ok" THEN RunExitOrRaise(@, "search_articles", res)
                    ELSE IF DuplicateFound(found)
                    THEN [RunExitOrRaise(@, "search_articles", "DisseminationError")
                             EXCEPT !.search_results = found]
                    ELSE [@ EXCEPT !.search_results = found, !.pc = "create_project"]]
    /\ UNCHANGED <<projects, articles, oneRunVars>>

\* fsuploader.py:84  create_project, outside the try statement
run_create_project(i) ==
    /\ runs[i].pc = "create_project"
    /\ \E r \in Responses :
        LET res == FigshareApi_issue_request("keys", r) IN
        /\ projects' = IF Performed(r)
                       THEN Append(projects, [state |-> "draft", work |-> runs[i].work_id])
                       ELSE projects
        /\ runs' = [runs EXCEPT ![i] =
                       IF res # "ok" THEN RunExitOrRaise(@, "create_project", res)
                       ELSE [@ EXCEPT !.project_id = Len(projects'),
                                      !.created = @ \cup {<<"project", Len(projects')>>},
                                      !.pc = "create_article"]]
    /\ UNCHANGED <<articles, oneRunVars>>

\* fsuploader.py:101-105  create_article, the request that creates the article
run_create_article(i) ==
    /\ runs[i].pc = "create_article"
    /\ \E r \in Responses :
        LET res == FigshareApi_issue_request("keys", r) IN
        /\ articles' = IF Performed(r)
                       THEN Append(articles, [project |-> runs[i].project_id,
                                              state |-> "draft", work |-> runs[i].work_id])
                       ELSE articles
        /\ runs' = [runs EXCEPT ![i] =
                       IF res # "ok"
                       THEN RunCaught(Touch(@, "project", runs[i].project_id),
                                      "create_article", res)
                       ELSE [Touch(@, "project", runs[i].project_id)
                                EXCEPT !.article_id = Len(articles'),
                                       !.created = @ \cup {<<"article", Len(articles')>>},
                                       !.pc = "remove_article_author"]]
    /\ UNCHANGED <<projects, oneRunVars>>

\* the steps of the run that address its article, in order, and what follows
RunArticleSteps == <<"remove_article_author", "upload_publication_file",
                     "upload_metadata_file", "publish_article", "publish_project">>

\* remove_article_author, upload_file (twice) and publish_article of the run:
\* one request or, for upload_file, the requests of one call, all addressed to
\* the article id that create_article returned
run_article_step(i) ==
    /\ \E k \in 1..(Len(RunArticleSteps) - 1) :
        /\ runs[i].pc = RunArticleSteps[k]
        /\ \E r \in Responses :
            LET res == FigshareApi_issue_request("none", r) IN
            /\ articles' = IF RunArticleSteps[k] = "publish_article" /\ Performed(r)
                           THEN [articles EXCEPT ![runs[i].article_id].state = "public"]
                           ELSE articles
            /\ runs' = [runs EXCEPT ![i] =
                           IF res # "ok"
                           THEN RunCaught(Touch(@, "article", runs[i].article_id),
                                          RunArticleSteps[k], res)
                           ELSE [Touch(@, "article", runs[i].article_id)
                                    EXCEPT !.pc = RunArticleSteps[k + 1]]]
    /\ UNCHANGED <<projects, oneRunVars>>

\* fsuploader.py:125  publish_project, inside the try statement, and the return
run_publish_project(i) ==
    /\ runs[i].pc = "publish_project"
    /\ \E r \in Responses :
        LET res == FigshareApi_issue_request("none", r) IN
        /\ projects' = IF Performed(r)
                       THEN [projects EXCEPT ![runs[i].project_id].state = "public"]
                       ELSE projects
        /\ runs' = [runs EXCEPT ![i] =
                       IF res # "ok"
                       THEN RunCaught(Touch(@, "project", runs[i].project_id),
                                      "publish_project", res)
                       ELSE [Touch(@, "project", runs[i].project_id)
                                EXCEPT !.pc = "done", !.outcome = "returned"]]
    /\ UNCHANGED <<articles, oneRunVars>>

\* clean_up handed the id of the project created last in the repository
RunCleanUpArg_latest(rn) == Len(projects)

\* fsuploader.py:129,133: the argument of clean_up is the local project_id
RunCleanUpArg(rn) == rn.project_id

\* fsuploader.py:126-134  clean_up(project_id) and the end of the run
run_clean_up(i) ==
    /\ runs[i].pc = "clean_up"
    /\ LET target == RunCleanUpArg(runs[i]) IN
       \E r \in {x \in Responses : Performed(x) => ProjectDeletable(target)} :
        LET res == FigshareApi_issue_request("none", r) IN
        /\ projects' = IF Performed(r)
                       THEN [projects EXCEPT ![target].state = "deleted"]
                       ELSE projects
        /\ articles' = IF Performed(r)
                       THEN [a \in DOMAIN articles |->
                               IF articles[a].project = target
                               THEN [articles[a] EXCEPT !.state = "deleted"]
                               ELSE articles[a]]
                       ELSE articles
        /\ runs' = [runs EXCEPT ![i] =
                       [Touch(@, "project", target)
                          EXCEPT !.pc = "done",
                                 !.outcome = IF clean_up_raises(res) = "none"
                                                /\ runs[i].error = "DisseminationError"
                                             THEN "exit1" ELSE "raised",
                                 !.raised = IF clean_up_raises(res) # "none"
                                            THEN clean_up_raises(res)
                                            ELSE IF runs[i].error = "DisseminationError"
                                            THEN "none" ELSE runs[i].error]]
    /\ UNCHANGED oneRunVars

NextTwoRuns ==
    \/ \E i \in Runs : run_search_articles(i)
    \/ \E i \in Runs : run_create_project(i)
    \/ \E i \in Runs : run_create_article(i)
    \/ \E i \in Runs : run_article_step(i)
    \/ \E i \in Runs : run_publish_project(i)
    \/ \E i \in Runs : run_clean_up(i)

SpecTwoRuns == InitTwoRuns /\ [][NextTwoRuns]_vars

(* ------------------------- the other programs ------------------------- *)

\* every variable of the Figshare and Zenodo deposits
depositVars == <<envVars, runs, callVars, platformVars, idVars, loopVars, uploadVars,
                 endVars, histVars, pc, log>>

\* no deposit to Figshare or Zenodo is run
DepositIdle ==
    /\ runs = NoRuns
    /\ projects = [w \in Works |-> EarlierContainer({}, w)]
    /\ articles = [w \in Works |-> EarlierArticle({}, w)]
    /\ depositions = [w \in Works |-> EarlierContainer({}, w)]
    /\ uploader = "none"
    /\ work_id = 1
    /\ metadata = [longAbstract |-> TRUE, workType |-> TRUE, license |-> "supported",
                   mainContributions |-> 1, keywords |-> 1]
    /\ file_bytes = OneByte
    /\ upload_plan = OnePart
    /\ custom_field = TRUE
    /\ work_publications = OnlyPDF
    /\ stdout = <<>>
    /\ parts = <<>>
    /\ puts = <<>>
    /\ requests = <<>>
    /\ file_info = NoFileInfo
    /\ request = NoRequest
    /\ result = NoResult
    /\ zn_requests = <<>>
    /\ search_results = -1
    /\ pc = "idle"
    /\ project_id = 0
    /\ deposition_id = 0
    /\ publications = <<>>
    /\ pub_idx = 0
    /\ article_id = 0
    /\ file_no = 1
    /\ parts_left = 0
    /\ tries = 0
    /\ last_status = <<"none", "none">>
    /\ polls = <<0, 0>>
    /\ slept = <<0, 0>>
    /\ pub_file_id = 0
    /\ locations = <<>>
    /\ done_steps = <<>>
    /\ error = "none"
    /\ failed_at = "none"
    /\ outcome = "running"
    /\ raised = "none"
    /\ mutations = {}
    /\ deletes = <<>>
    /\ log = <<>>

\* the exit status of the process: sys.exit(1) and an exception that nothing
\* catches both end it with status 1
ExitStatus(out) == IF out \in {"exit1", "raised"} THEN 1 ELSE 0

(* ------------------ SFTP uploaders and Google Play -------------------- *)

\* the uploaders that put their files on an SFTP server
SftpPlatforms == {"JSTOR", "MUSE", "EBSCO", "ProQuest"}
\* the uploaders that need the PDF or the EPUB publication, or both
ContentPlatforms == {"MUSE", "EBSCO", "ProQuest", "GooglePlay"}

\* the files list before the publications are retrieved: the metadata file
\* and the cover (jstoruploader.py:45-47, museuploader.py:44-47,
\* proquestuploader.py:58-61); EBSCOHost and Google Play start with none
InitialFiles(platform) ==
    IF platform \in {"JSTOR", "MUSE", "ProQuest"} THEN <<"xml", "cover">> ELSE <<>>

\* the directories the uploader changes into after connecting
Directories(platform) ==
    CASE platform = "JSTOR" -> 2
      [] platform \in {"MUSE", "ProQuest"} -> 1
      [] OTHER -> 0

\* a run of one of these uploaders, after the credentials were found and the
\* metadata file and the cover were retrieved
SftpRun(platform, pdf, epub) ==
    [platform |-> platform, pdf |-> pdf, epub |-> epub, pc |-> "get_pdf",
     pdf_error |-> FALSE, epub_error |-> FALSE, files |-> InitialFiles(platform),
     next |-> 1, connected |-> FALSE, puts |-> <<>>, put_error |-> "none",
     removes |-> <<>>, server |-> {}, errors |-> <<>>, at |-> "none",
     outcome |-> "running", raised |-> "none"]

InitSftp ==
    /\ DepositIdle
    /\ sftp_upload \in {SftpRun(p, a, b) : p \in SftpPlatforms \cup ContentPlatforms,
                                           a \in PublicationStates, b \in PublicationStates}
    /\ id_finder = Idle
    /\ crossref_ids = Idle
    /\ ia_upload = Idle
    /\ crossref_upload = Idle
    /\ location_line = Idle

notSftpVars == <<depositVars, id_finder, crossref_ids, ia_upload, crossref_upload,
                 location_line>>

\* an exception that no except clause of upload_to_platform catches
SftpRaise(rn, exc) ==
    [rn EXCEPT !.pc = "done", !.at = rn.pc, !.outcome = "raised", !.raised = exc]

\* logging.error(...) for each message, then sys.exit(1).  In ProquestUploader
\* the exit is inside the try statement whose clause is `except SFTPClient`
\* (proquestuploader.py:108): matching SystemExit against a class that is no
\* exception raises TypeError
SftpExit(rn, messages, in_try) ==
    IF rn.platform = "ProQuest" /\ in_try
    THEN [rn EXCEPT !.pc = "done", !.at = rn.pc, !.outcome = "raised",
                    !.raised = "TypeError", !.errors = @ \o messages]
    ELSE [rn EXCEPT !.pc = "done", !.at = rn.pc, !.outcome = "exit1",
                    !.errors = @ \o messages]

\* museuploader.py:55, ebscouploader.py:48, proquestuploader.py:69,
\* googleplayuploader.py:55  "except DisseminationError as error"
SwallowedPublication(exc) == exc = "DisseminationError"

\* jstoruploader.py:44; museuploader.py:52-56, ebscouploader.py:44-49,
\* proquestuploader.py:66-70, googleplayuploader.py:51-56
sftp_get_pdf ==
    /\ sftp_upload.pc = "get_pdf"
    /\ LET rn == sftp_upload
           res == Uploader_get_publication_details("PDF", rn.pdf) IN
       sftp_upload' =
           IF res = "ok"
           THEN [rn EXCEPT !.files = Append(@, "pdf"),
                           !.pc = IF rn.platform = "JSTOR" THEN "connect" ELSE "get_epub"]
           ELSE IF rn.platform # "JSTOR" /\ SwallowedPublication(res)
           THEN [rn EXCEPT !.pdf_error = TRUE, !.pc = "get_epub"]
           ELSE SftpRaise(rn, res)
    /\ UNCHANGED notSftpVars

\* museuploader.py:57-65, ebscouploader.py:50-65, proquestuploader.py:71-79,
\* googleplayuploader.py:57-74: the EPUB, the test of both errors, and the
\* metadata file that EBSCOHost and Google Play put last
sftp_get_epub ==
    /\ sftp_upload.pc = "get_epub"
    /\ LET rn == sftp_upload
           res == Uploader_get_publication_details("EPUB", rn.epub)
           after == IF rn.platform \in {"EBSCO", "GooglePlay"} THEN <<"xml">> ELSE <<>> IN
       sftp_upload' =
           IF res = "ok"
           THEN [rn EXCEPT !.files = Append(@, "epub") \o after,
                           !.pc = IF rn.platform = "GooglePlay" THEN "putfo" ELSE "connect"]
           ELSE IF ~SwallowedPublication(res) THEN SftpRaise(rn, res)
           ELSE IF rn.pdf_error
           THEN SftpExit([rn EXCEPT !.epub_error = TRUE], <<"pdf_error", "epub_error">>, FALSE)
           ELSE [rn EXCEPT !.epub_error = TRUE, !.files = @ \o after,
                           !.pc = IF rn.platform = "GooglePlay" THEN "putfo" ELSE "connect"]
    /\ UNCHANGED notSftpVars

\* what the server answers to the connection and to the changes of directory
ConnectAnswers(platform) ==
    {"ok", "AuthenticationException"}
    \cup (IF Directories(platform) > 0 THEN {"FileNotFoundError"} ELSE {})

\* pysftp.Connection(...) / SFTPClient(...) and sftp.cwd(...)
\* (jstoruploader.py:51-72, 88-91; museuploader.py:67-81, 97-100;
\* ebscouploader.py:67-72, 88-91; proquestuploader.py:81-92, 108-111)
sftp_connect ==
    /\ sftp_upload.pc = "connect"
    /\ \E answer \in ConnectAnswers(sftp_upload.platform) :
        LET rn == sftp_upload IN
        sftp_upload' =
            CASE answer = "ok" -> [rn EXCEPT !.connected = TRUE, !.pc = "putfo"]
              [] answer = "FileNotFoundError" ->
                    SftpExit([rn EXCEPT !.connected = TRUE], <<"no folder">>, TRUE)
              [] OTHER ->
                    \* SFTPAuthError is matched against `except SFTPClient`
                    IF rn.platform = "ProQuest" THEN SftpRaise(rn, "TypeError")
                    ELSE SftpExit(rn, <<"could not connect">>, FALSE)
    /\ UNCHANGED notSftpVars

\* how sftp.putfo / blob.upload_from_string can end
PutResults == {"ok", "TypeError", "IOError"}

\* jstoruploader.py:76, museuploader.py:85, ebscouploader.py:76,
\* proquestuploader.py:96 "except TypeError"; googleplayuploader.py:80
\* "except Exception"
PutHandled(platform, res) == platform = "GooglePlay" \/ res = "TypeError"

\* sftp.putfo(flo=file[1], remotepath=file[0]) for the next file of the list;
\* a failed upload may leave a part of the file on the server
sftp_putfo ==
    /\ sftp_upload.pc = "putfo"
    /\ \E res \in PutResults, left \in BOOLEAN :
        LET rn == sftp_upload
            file == rn.files[rn.next]
            put == [rn EXCEPT !.puts = Append(@, file),
                              !.server = IF res = "ok" \/ left THEN @ \cup {file} ELSE @] IN
        /\ res = "ok" => left
        /\ sftp_upload' =
            IF res = "ok"
            THEN IF rn.next = Len(rn.files)
                 THEN [put EXCEPT !.pc = "done", !.at = "putfo", !.outcome = "returned"]
                 ELSE [put EXCEPT !.next = @ + 1]
            ELSE IF ~PutHandled(rn.platform, res)
            THEN SftpRaise([put EXCEPT !.put_error = res], res)
            ELSE IF rn.platform = "GooglePlay"
            THEN SftpExit([put EXCEPT !.put_error = res], <<"could not connect">>, FALSE)
            ELSE [put EXCEPT !.put_error = res, !.errors = Append(@, "error uploading"),
                             !.pc = "remove", !.next = 1]
    /\ UNCHANGED notSftpVars

\* how sftp.remove answers for a file: a file that is not there gives
\* FileNotFoundError, a file that is there is removed unless the server refuses
RemoveResults(rn, file) ==
    IF file \in rn.server THEN {"ok", "IOError"} ELSE {"FileNotFoundError"}

\* the inner loop "for file in files: sftp.remove(file[0])" and sys.exit(1)
sftp_remove ==
    /\ sftp_upload.pc = "remove"
    /\ LET rn == sftp_upload
           file == rn.files[rn.next] IN
       \E res \in RemoveResults(rn, file) :
        LET removed == [rn EXCEPT !.removes = Append(@, <<file, res>>),
                                  !.server = IF res = "ok" THEN @ \ {file} ELSE @] IN
        sftp_upload' =
            IF res = "IOError" THEN SftpRaise(removed, res)
            ELSE IF rn.next = Len(rn.files) THEN SftpExit(removed, <<>>, TRUE)
            ELSE [removed EXCEPT !.next = @ + 1]
    /\ UNCHANGED notSftpVars

NextSftp ==
    \/ sftp_get_pdf
    \/ sftp_get_epub
    \/ sftp_connect
    \/ sftp_putfo
    \/ sftp_remove

SpecSftp == InitSftp /\ [][NextSftp]_vars

(* --------------------- obtain_new_ids.py: IDFinder -------------------- *)

Dates == 1..MaxDate

\* the works Thoth holds for the selected publishers, as the works query
\* serves them under "PUBLICATION_DATE, direction: DESC": the publication
\* dates, most recent first; the work in place k has work id k
RECURSIVE Catalogues(_)
Catalogues(n) ==
    IF n = 0 THEN {<<>>}
    ELSE Catalogues(n - 1)
         \cup {Append(c, d) : c \in {x \in Catalogues(n - 1) : Len(x) = n - 1},
                              d \in Dates}

Descending(c) == \A k \in 1..(Len(c) - 1) : c[k] >= c[k + 1]

\* ENV_PUBLISHERS: text that is no JSON, or a list of publisher ids, each of
\* which Thoth has a record for or not
EnvPublishers ==
    {<<"not_json">>, <<>>}
    \cup {<<a>> : a \in {"known", "unknown"}}
    \cup {<<a, b>> : a \in {"known", "unknown"}, b \in {"known", "unknown"}}

\* ENV_EXCEPTIONS: unset or empty, text that is no JSON, or a list of one
\* work id, written in lower or in upper case
EnvExceptions ==
    {[kind |-> k, id |-> 0, upper |-> FALSE] : k \in {"unset", "not_json"}}
    \cup {[kind |-> "list", id |-> w, upper |-> u] : w \in 1..MaxCatalogue, u \in BOOLEAN}

\* str.lower() of a work id
lower(id) == [id EXCEPT !.upper = FALSE]

\* a work id as Thoth returns it
WorkId(k) == [id |-> k, upper |-> FALSE]

\* the finders: IDFinder.get_thoth_ids (one bookIds query) and
\* CatchupIDFinder.get_thoth_ids (get_thoth_ids_iteratively)
Finders == {"IDFinder", "CatchupIDFinder"}

FinderRun(finder, publishers, exceptions, catalogue, start_date, end_date) ==
    [finder |-> finder, env_publishers |-> publishers, env_exceptions |-> exceptions,
     catalogue |-> catalogue, start_date |-> start_date, end_date |-> end_date,
     pc |-> "get_publishers", checked |-> 0, offset |-> 0, thoth_ids |-> <<>>,
     steps |-> <<>>, queries |-> 0, last_batch |-> "none", printed |-> <<>>, has_printed |-> FALSE,
     outcome |-> "running"]

InitFinder ==
    /\ DepositIdle
    /\ id_finder \in
         {FinderRun(f, p, e, c, s, t) :
             f \in Finders, p \in EnvPublishers, e \in EnvExceptions,
             c \in {x \in Catalogues(MaxCatalogue) : Descending(x)},
             s \in Dates, t \in Dates}
    /\ id_finder.start_date <= id_finder.end_date
    /\ id_finder.finder = "IDFinder" =>
          id_finder.start_date = 1 /\ id_finder.end_date = 1
    /\ sftp_upload = Idle
    /\ crossref_ids = Idle
    /\ ia_upload = Idle
    /\ crossref_upload = Idle
    /\ location_line = Idle

notFinderVars == <<depositVars, sftp_upload, crossref_ids, ia_upload, crossref_upload,
                   location_line>>

\* logging.error(...); sys.exit(1)
FinderExit(rn) == [rn EXCEPT !.pc = "done", !.outcome = "exit1"]

\* obtain_new_ids.py:52-64  json.loads(environ.get('ENV_PUBLISHERS')), len < 1
get_publishers ==
    /\ id_finder.pc = "get_publishers"
    /\ LET rn == [id_finder EXCEPT !.steps = Append(@, "get_publishers")] IN
       id_finder' =
           IF rn.env_publishers = <<"not_json">> THEN FinderExit(rn)
           ELSE IF Len(rn.env_publishers) < 1 THEN FinderExit(rn)
           ELSE [rn EXCEPT !.pc = "publisher"]
    /\ UNCHANGED notFinderVars

\* obtain_new_ids.py:68-77  self.thoth.publisher(publisher) for the next id
thoth_publisher ==
    /\ id_finder.pc = "publisher"
    /\ LET rn == id_finder
           publisher == rn.env_publishers[rn.checked + 1] IN
       id_finder' =
           IF publisher = "unknown" THEN FinderExit(rn)
           ELSE IF rn.checked + 1 = Len(rn.env_publishers)
           THEN [rn EXCEPT !.checked = @ + 1, !.pc = "get_query_parameters"]
           ELSE [rn EXCEPT !.checked = @ + 1]
    /\ UNCHANGED notFinderVars

\* obtain_new_ids.py:79-91
get_query_parameters ==
    /\ id_finder.pc = "get_query_parameters"
    /\ id_finder' = [id_finder EXCEPT !.steps = Append(@, "get_query_parameters"),
                                      !.pc = "get_thoth_ids"]
    /\ UNCHANGED notFinderVars

\* obtain_new_ids.py:93-107  IDFinder.get_thoth_ids: one bookIds query
get_thoth_ids ==
    /\ id_finder.pc = "get_thoth_ids"
    /\ id_finder.finder = "IDFinder"
    /\ id_finder' = [id_finder EXCEPT
                        !.steps = Append(@, "get_thoth_ids"),
                        !.queries = @ + 1,
                        !.thoth_ids = [k \in DOMAIN id_finder.catalogue |-> WorkId(k)],
                        !.pc = "remove_exceptions"]
    /\ UNCHANGED notFinderVars

\* obtain_new_ids.py:244-259  CatchupIDFinder.get_thoth_ids up to the loop
get_thoth_ids_iteratively ==
    /\ id_finder.pc = "get_thoth_ids"
    /\ id_finder.finder = "CatchupIDFinder"
    /\ id_finder' = [id_finder EXCEPT !.steps = Append(@, "get_thoth_ids"),
                                      !.offset = 0, !.pc = "works"]
    /\ UNCHANGED notFinderVars

\* a work earlier than the period passed over like one later than it
Verdict_no_stop(date, start_date, end_date) ==
    IF date > end_date \/ date < start_date THEN "continue" ELSE "append"

\* obtain_new_ids.py:133-142  the three branches on next_work_pub_date
Verdict(date, start_date, end_date) ==
    IF date > end_date THEN "continue"
    ELSE IF date >= start_date THEN "append"
    ELSE "break"

\* obtain_new_ids.py:117-142  one turn of the loop: self.thoth.works(limit=1,
\* offset=offset, ...) and what is done with the batch
thoth_works ==
    /\ id_finder.pc = "works"
    /\ LET rn == [id_finder EXCEPT !.queries = @ + 1]
           k == rn.offset + 1 IN
       id_finder' =
           IF k > Len(rn.catalogue)
           THEN [rn EXCEPT !.last_batch = "empty", !.pc = "remove_exceptions"]
           ELSE LET v == Verdict(rn.catalogue[k], rn.start_date, rn.end_date) IN
                [rn EXCEPT !.offset = k,
                           !.last_batch = v,
                           !.thoth_ids = IF v = "append" THEN Append(@, WorkId(k)) ELSE @,
                           !.pc = IF v = "break" THEN "remove_exceptions" ELSE "works"]
    /\ UNCHANGED notFinderVars

\* the exceptions taken as they are written
Excepted_as_written(exceptions) == {[id |-> exceptions.id, upper |-> exceptions.upper]}

\* obtain_new_ids.py:153  json.loads(environ.get('ENV_EXCEPTIONS').lower())
Excepted(exceptions) == {lower([id |-> exceptions.id, upper |-> exceptions.upper])}

\* list(set(self.thoth_ids).difference(exceptions)): the ids left, in the
\* order of the list they are taken from
Difference(ids, excepted) == SelectSeq(ids, LAMBDA x : x \notin excepted)

\* obtain_new_ids.py:144-163
remove_exceptions ==
    /\ id_finder.pc = "remove_exceptions"
    /\ LET rn == [id_finder EXCEPT !.steps = Append(@, "remove_exceptions")] IN
       id_finder' =
           CASE rn.env_exceptions.kind = "unset" -> [rn EXCEPT !.pc = "post_process"]
             [] rn.env_exceptions.kind = "not_json" -> FinderExit(rn)
             [] OTHER ->
                  [rn EXCEPT !.thoth_ids = Difference(@, Excepted(rn.env_exceptions)),
                             !.pc = "post_process"]
    /\ UNCHANGED notFinderVars

\* obtain_new_ids.py:44-46, 165-171  post_process (nothing to do) and print
post_process ==
    /\ id_finder.pc = "post_process"
    /\ id_finder' = [id_finder EXCEPT !.steps = Append(@, "post_process"),
                                      !.printed = id_finder.thoth_ids,
                                      !.has_printed = TRUE,
                                      !.pc = "done", !.outcome = "returned"]
    /\ UNCHANGED notFinderVars

NextFinder ==
    \/ get_publishers
    \/ thoth_publisher
    \/ get_query_parameters
    \/ get_thoth_ids
    \/ get_thoth_ids_iteratively
    \/ thoth_works
    \/ remove_exceptions
    \/ post_process

SpecFinder == InitFinder /\ [][NextFinder]_vars

(* ------------------------ obtain_new_ids_crossref.py ------------------ *)

\* the script before it reads ENV_PUBLISHERS_CROSSREF.  catalogue: the times
\* of last update of the works of the selected publishers, most recent first
\* (the work in place k has work id k); the current time is later than all
CrossrefIdsRun(publishers, exceptions, catalogue, last_deposit_time) ==
    [env_publishers |-> publishers, env_exceptions |-> exceptions,
     catalogue |-> catalogue, last_deposit_time |-> last_deposit_time,
     pc |-> "get_publishers", checked |-> 0, offset |-> 0, thoth_works |-> <<>>,
     queries |-> 0, printed |-> <<>>, has_printed |-> FALSE,
     outcome |-> "running", raised |-> "none"]

InitCrossrefIds ==
    /\ DepositIdle
    /\ crossref_ids \in
         {CrossrefIdsRun(p, e, c, t) :
             p \in EnvPublishers, e \in EnvExceptions,
             c \in {x \in Catalogues(MaxCatalogue) : Descending(x)},
             t \in Dates}
    /\ sftp_upload = Idle
    /\ id_finder = Idle
    /\ ia_upload = Idle
    /\ crossref_upload = Idle
    /\ location_line = Idle

notCrossrefIdsVars == <<depositVars, sftp_upload, id_finder, ia_upload, crossref_upload,
                        location_line>>

\* obtain_new_ids_crossref.py:31-42  json.loads(...), len(publishers_env) < 1
crossref_ids_get_publishers ==
    /\ crossref_ids.pc = "get_publishers"
    /\ LET rn == crossref_ids IN
       crossref_ids' =
           IF rn.env_publishers = <<"not_json">> \/ Len(rn.env_publishers) < 1
           THEN [rn EXCEPT !.pc = "done", !.outcome = "exit1"]
           ELSE [rn EXCEPT !.pc = "publisher"]
    /\ UNCHANGED notCrossrefIdsVars

\* obtain_new_ids_crossref.py:46-55  thoth.publisher(publisher) for the next id
crossref_ids_publisher ==
    /\ crossref_ids.pc = "publisher"
    /\ LET rn == crossref_ids
           publisher == rn.env_publishers[rn.checked + 1] IN
       crossref_ids' =
           IF publisher = "unknown" THEN [rn EXCEPT !.pc = "done", !.outcome = "exit1"]
           ELSE IF rn.checked + 1 = Len(rn.env_publishers)
           THEN [rn EXCEPT !.checked = @ + 1, !.pc = "books"]
           ELSE [rn EXCEPT !.checked = @ + 1]
    /\ UNCHANGED notCrossrefIdsVars

\* thoth.books(limit=limit, offset=offset, ...): the works in places
\* offset+1 .. offset+limit of the catalogue
Page(catalogue, offset) ==
    [k \in 1..(IF Len(catalogue) - offset > limit THEN limit
               ELSE IF Len(catalogue) > offset THEN Len(catalogue) - offset ELSE 0)
        |-> offset + k]

\* obtain_new_ids_crossref.py:85  thoth_works.last(): thoth_works is the list
\* of line 68, extended in place by +=, and a list has no attribute 'last'
list_last(works) == "AttributeError"

\* obtain_new_ids_crossref.py:71-87  the first turn of the loop:
\* earliest_updated_time is current_time, which is later than
\* last_deposit_time
thoth_books ==
    /\ crossref_ids.pc = "books"
    /\ LET rn == crossref_ids
           works == rn.thoth_works \o Page(rn.catalogue, rn.offset) IN
       crossref_ids' = [rn EXCEPT !.thoth_works = works,
                                  !.queries = @ + 1,
                                  !.offset = @ + limit,
                                  !.pc = "done",
                                  !.outcome = "raised",
                                  !.raised = list_last(works)]
    /\ UNCHANGED notCrossrefIdsVars

NextCrossrefIds ==
    \/ crossref_ids_get_publishers
    \/ crossref_ids_publisher
    \/ thoth_books

SpecCrossrefIds == InitCrossrefIds /\ [][NextCrossrefIds]_vars

(* ----------------------------- iauploader.py -------------------------- *)

\* the status codes of the responses upload returns, one per file sent
IAStatuses == {200, 503}
IAResponses ==
    {<<>>} \cup {<<a>> : a \in IAStatuses} \cup {<<a, b>> : a \in IAStatuses, b \in IAStatuses}

\* a run of IAUploader.upload_to_platform for a work; items: the identifiers
\* that exist in the Archive; credentials: which of the two keys the
\* environment holds
IARun(w, items, credentials) ==
    [work_id |-> w, items |-> items, existed |-> w \in items, credentials |-> credentials,
     pc |-> "get_credential_from_env", available |-> "unknown", downloads |-> <<>>,
     upload_called |-> FALSE, responses |-> <<>>, success |-> FALSE, at |-> "none",
     outcome |-> "running", raised |-> "none"]

InitIA ==
    /\ DepositIdle
    /\ ia_upload \in {IARun(w, i, c) : w \in Works, i \in SUBSET Works,
                                       c \in [ia_s3_access : BOOLEAN, ia_s3_secret : BOOLEAN]}
    /\ sftp_upload = Idle
    /\ id_finder = Idle
    /\ crossref_ids = Idle
    /\ crossref_upload = Idle
    /\ location_line = Idle

notIAVars == <<depositVars, sftp_upload, id_finder, crossref_ids, crossref_upload,
               location_line>>

\* logging.error(...); sys.exit(1)
IAExit(rn) == [rn EXCEPT !.pc = "done", !.at = rn.pc, !.outcome = "exit1"]

\* an exception that no except clause names
IARaise(rn, exc) ==
    [rn EXCEPT !.pc = "done", !.at = rn.pc, !.outcome = "raised", !.raised = exc]

\* iauploader.py:22-29, uploader.py:273-283
ia_get_credential_from_env ==
    /\ ia_upload.pc = "get_credential_from_env"
    /\ ia_upload' = IF ia_upload.credentials.ia_s3_access /\ ia_upload.credentials.ia_s3_secret
                    THEN [ia_upload EXCEPT !.pc = "identifier_available"]
                    ELSE IAExit(ia_upload)
    /\ UNCHANGED notIAVars

\* an identifier that is taken passed over
IdentifierTaken_never(answer) == FALSE

\* iauploader.py:37  "if not get_item(filename).identifier_available()"
IdentifierTaken(answer) == ~answer

\* iauploader.py:32-40  the identifier is the work id; the Archive answers
\* whether it is free, or the request fails
identifier_available ==
    /\ ia_upload.pc = "identifier_available"
    /\ \E answered \in BOOLEAN :
        LET rn == ia_upload
            answer == rn.work_id \notin rn.items IN
        ia_upload' =
            IF ~answered THEN IARaise(rn, "ConnectionError")
            ELSE IF IdentifierTaken(answer)
            THEN IAExit([rn EXCEPT !.available = "no"])
            ELSE [rn EXCEPT !.available = "yes", !.pc = "get_formatted_metadata"]
    /\ UNCHANGED notIAVars

\* iauploader.py:44, uploader.py:125-133  the JSON metadata file
ia_get_formatted_metadata ==
    /\ ia_upload.pc = "get_formatted_metadata"
    /\ \E res \in {"ok", "DisseminationError"} :
        ia_upload' =
            IF res = "ok"
            THEN [ia_upload EXCEPT !.downloads = Append(@, "json"),
                                   !.pc = "get_publication_bytes"]
            ELSE IAExit(ia_upload)
    /\ UNCHANGED notIAVars

\* iauploader.py:46-54  the PDF, and parse_metadata
ia_get_publication_bytes ==
    /\ ia_upload.pc = "get_publication_bytes"
    /\ \E res \in Uploader_get_publication_bytes :
        ia_upload' =
            IF res = "ok"
            THEN [ia_upload EXCEPT !.downloads = Append(@, "pdf"), !.pc = "upload"]
            ELSE IF res = "DisseminationError" THEN IAExit(ia_upload)
            ELSE IARaise(ia_upload, res)
    /\ UNCHANGED notIAVars

\* iauploader.py:91-95  no response has a status other than 200
AllOk(responses) == \A k \in DOMAIN responses : responses[k] = 200

\* iauploader.py:56-98  upload(...) and what is made of its responses
ia_upload_files ==
    /\ ia_upload.pc = "upload"
    /\ \E res \in {"responses", "AuthenticationError", "HTTPError", "ConnectionError"},
          responses \in IAResponses :
        LET rn == [ia_upload EXCEPT !.upload_called = TRUE] IN
        /\ res # "responses" => responses = <<>>
        /\ ia_upload' =
            IF res \in {"AuthenticationError", "HTTPError"} THEN IAExit(rn)
            ELSE IF res # "responses" THEN IARaise(rn, res)
            ELSE LET got == [rn EXCEPT !.responses = responses,
                                       !.items = IF responses # <<>> /\ responses[1] = 200
                                                 THEN @ \cup {rn.work_id} ELSE @] IN
                 IF Len(responses) < 1 THEN IAExit(got)
                 ELSE IF ~AllOk(responses) THEN IAExit(got)
                 ELSE [got EXCEPT !.pc = "done", !.outcome = "returned", !.success = TRUE]
    /\ UNCHANGED notIAVars

NextIA ==
    \/ ia_get_credential_from_env
    \/ identifier_available
    \/ ia_get_formatted_metadata
    \/ ia_get_publication_bytes
    \/ ia_upload_files

SpecIA == InitIA /\ [][NextIA]_vars

(* -------------------------- crossrefuploader.py ----------------------- *)

\* Uploader.get_variable_from_env: CrossrefUploader calls it, uploader.py
\* does not define it.  Modelled from its call (the caller catches a
\* DisseminationError, logs it and exits): the value of the variable, or a
\* dissemination error when the environment does not hold it
Uploader_get_variable_from_env(held) == IF held THEN "ok" ELSE "DisseminationError"

\* what a request of CrossrefUploader is answered with: no answer at all, or
\* a status code
CrossrefStatuses == {200, 404, 503}

\* the DOI of the work in the Thoth metadata: None, or a DOI whose prefix
\* Crossref knows or does not know
WorkDois == {"None", "registered", "unregistered"}

\* a run of CrossrefUploader.upload_to_platform.  credentials: which of the
\* two variables the environment holds; received: the works whose deposit
\* file Crossref has received (a work may be deposited again)
CrossrefRun(w, credentials, doi, received) ==
    [work_id |-> w, credentials |-> credentials, doi |-> doi, received |-> received,
     pc |-> "get_variable_from_env", steps |-> <<>>, prefix_status |-> 0,
     posted |-> FALSE, deposit_status |-> 0, deposit_text |-> FALSE, success |-> FALSE,
     at |-> "none", outcome |-> "running", raised |-> "none"]

InitCrossref ==
    /\ DepositIdle
    /\ crossref_upload \in
          {CrossrefRun(w, c, r, d) : w \in Works,
                                     c \in [crossref_user : BOOLEAN, crossref_pw : BOOLEAN],
                                     r \in WorkDois, d \in SUBSET Works}
    /\ sftp_upload = Idle
    /\ id_finder = Idle
    /\ crossref_ids = Idle
    /\ ia_upload = Idle
    /\ location_line = Idle

notCrossrefVars == <<depositVars, sftp_upload, id_finder, crossref_ids, ia_upload,
                     location_line>>

\* logging.error(...); sys.exit(1)
CrossrefExit(rn) == [rn EXCEPT !.pc = "done", !.at = rn.pc, !.outcome = "exit1"]

\* an exception that nothing catches
CrossrefRaise(rn, exc) ==
    [rn EXCEPT !.pc = "done", !.at = rn.pc, !.outcome = "raised", !.raised = exc]

\* crossrefuploader.py:30-39  both credentials, or the run ends
crossref_get_variable_from_env ==
    /\ crossref_upload.pc = "get_variable_from_env"
    /\ LET rn == crossref_upload IN
       crossref_upload' =
           IF /\ Uploader_get_variable_from_env(rn.credentials.crossref_user) = "ok"
              /\ Uploader_get_variable_from_env(rn.credentials.crossref_pw) = "ok"
           THEN [rn EXCEPT !.steps = Append(@, "credentials"),
                           !.pc = "get_formatted_metadata"]
           ELSE CrossrefExit(rn)
    /\ UNCHANGED notCrossrefVars

\* crossrefuploader.py:41, uploader.py:125-133  the deposit file
crossref_get_formatted_metadata ==
    /\ crossref_upload.pc = "get_formatted_metadata"
    /\ \E res \in {"ok", "DisseminationError", "ConnectionError"} :
        crossref_upload' =
            IF res = "ok"
            THEN [crossref_upload EXCEPT !.steps = Append(@, "deposit_file"),
                                         !.pc = "prefix"]
            ELSE IF res = "DisseminationError" THEN CrossrefExit(crossref_upload)
            ELSE CrossrefRaise(crossref_upload, res)
    /\ UNCHANGED notCrossrefVars

\* crossrefuploader.py:55  "if doi_rsp.status_code != 200"
PrefixInvalid(status) == status # 200

\* crossrefuploader.py:45-59  doi.replace(...) and
\* requests.get(prefixes/<doi_prefix>): Crossref answers 200 for a prefix it
\* knows only
crossref_prefix ==
    /\ crossref_upload.pc = "prefix"
    /\ \E answered \in BOOLEAN,
          status \in {s \in CrossrefStatuses :
                         s = 200 => crossref_upload.doi = "registered"} :
        LET rn == crossref_upload IN
        crossref_upload' =
            IF rn.doi = "None" THEN CrossrefRaise(rn, "AttributeError")
            ELSE IF ~answered THEN CrossrefRaise(rn, "ConnectionError")
            ELSE IF PrefixInvalid(status)
            THEN CrossrefExit([rn EXCEPT !.prefix_status = status])
            ELSE [rn EXCEPT !.prefix_status = status,
                            !.steps = Append(@, "prefix"), !.pc = "deposit"]
    /\ UNCHANGED notCrossrefVars

\* the status alone decides
DepositFailed_status_only(status, has_message) == status # 200

\* crossrefuploader.py:75  "status_code != 200 or not SUCCESS_MSG in text"
DepositFailed(status, has_message) == status # 200 \/ ~has_message

\* crossrefuploader.py:63-86  requests.post(deposit) and the test of the response
crossref_deposit ==
    /\ crossref_upload.pc = "deposit"
    /\ \E answered \in BOOLEAN, status \in CrossrefStatuses, has_message \in BOOLEAN :
        LET rn == [crossref_upload EXCEPT !.posted = TRUE] IN
        /\ ~answered => (status = 200 /\ ~has_message)
        /\ crossref_upload' =
            IF ~answered THEN CrossrefRaise(rn, "ConnectionError")
            ELSE LET got == [rn EXCEPT !.deposit_status = status,
                                       !.deposit_text = has_message,
                                       !.received = IF status = 200 /\ has_message
                                                    THEN @ \cup {rn.work_id} ELSE @] IN
                 IF DepositFailed(status, has_message) THEN CrossrefExit(got)
                 ELSE [got EXCEPT !.pc = "done", !.at = "deposit",
                                  !.outcome = "returned", !.success = TRUE]
    /\ UNCHANGED notCrossrefVars

NextCrossref ==
    \/ crossref_get_variable_from_env
    \/ crossref_get_formatted_metadata
    \/ crossref_prefix
    \/ crossref_deposit

SpecCrossref == InitCrossref /\ [][NextCrossref]_vars

(* ------------------------------ properties ---------------------------- *)

\* the container this run created (0: none)
ContainerId == IF uploader = "Figshare" THEN project_id ELSE deposition_id

\* the steps of one Record inside the try statement of FigshareUploader
RecordSteps == {"create_article", "remove_article_author", "upload_file",
                "publish_article"}

\* the steps that come before the container is created
PreCreationSteps == {"check_custom_field_exists", "search_articles", "parse_metadata",
                     "get_formatted_metadata", "get_publication_details",
                     "get_publication_bytes"}

\* the articles of the project this run created
OwnArticles == {a \in DOMAIN articles : articles[a].project = project_id}

\* an earlier deposit of this run's work is on the platform
FigshareHadRecord ==
    \E a \in 1..NumWorks : articles[a].work = work_id /\ articles[a].state = "public"
ZenodoHadRecord ==
    \E d \in 1..NumWorks : depositions[d].work = work_id /\ depositions[d].state = "public"

\* C1 (as claimed): a Figshare run that created its project and then failed in
\* a step of any Record ends with the project deleted.  Stated for the runs in
\* which the failure was a dissemination error, the DELETE request was answered
\* (the run ended in the exit with status 1) and the platform did what it does
\* with a DELETE: delete the project unless one of its articles is published.
C1_AllOrNothing ==
    (/\ uploader = "Figshare"
     /\ pc = "done"
     /\ failed_at \in RecordSteps
     /\ error = "DisseminationError"
     /\ outcome = "exit1"
     /\ ~ProjectDeletable(project_id))
    => projects[project_id].state = "deleted"

\* C2 (as claimed): when every article was published and the request that
\* publishes the project fails with a dissemination error, the run returns
\* the Locations of the published articles and issues no DELETE.  Stated for
\* the runs that no exception leaves.
C2_ContainerPublishNonFatal ==
    (/\ uploader = "Figshare"
     /\ pc = "done"
     /\ failed_at = "publish_project"
     /\ error = "DisseminationError"
     /\ raised = "none")
    => /\ outcome = "returned"
       /\ deletes = <<>>
       /\ Len(locations) = Len(publications)

\* C3: the project is never published, and its publish request never issued,
\* while one of its articles is in draft: when publish_project is issued every
\* publication has its article and every article of the project is published.
C3_ProjectPublishedLast ==
    /\ (pc = "publish_project" \/ "publish_project" \in mutations)
       => /\ \A a \in OwnArticles : articles[a].state = "public"
          /\ Cardinality(OwnArticles) = Len(publications)
    /\ \A p \in DOMAIN projects :
          projects[p].state = "public"
          => \A a \in DOMAIN articles :
                articles[a].project = p => articles[a].state = "public"

C3_Witness ==
    /\ outcome = "returned"
    /\ uploader = "Figshare"
    /\ Len(publications) >= 2
    /\ projects[project_id].state = "public"

\* C4 (as claimed): when publish_article is issued, the last status reported
\* for both files of the article is `available`.
C4_OnlyAvailable ==
    pc = "publish_article" => last_status = <<"available", "available">>

\* C4 (amended): when publish_article is issued, the last status reported for
\* each file of the article is available, moving_to_final or ic_success, or it
\* is ic_checking on the fourth poll of that file; it is never created,
\* ic_failure or a status the code does not name.
C4_PublishedAfterPollEnded ==
    pc = "publish_article"
    => \A k \in 1..2 :
          \/ last_status[k] \in {"available", "moving_to_final", "ic_success"}
          \/ last_status[k] = "ic_checking" /\ polls[k] = MaxTries + 1

C4_Witness ==
    /\ pc = "publish_article"
    /\ last_status = <<"ic_checking", "moving_to_final">>

\* C5: a Figshare run whose search returns a match exits with status 1 having
\* issued no mutating request; and a run for a work that an earlier deposit
\* left on the platform never requests a new project.
C5_DuplicateNoMutation ==
    /\ search_results > 0
       => /\ pc = "done"
          /\ outcome = "exit1"
          /\ mutations = {}
          /\ Len(projects) = NumWorks
          /\ Len(articles) = NumWorks
    /\ (uploader = "Figshare" /\ FigshareHadRecord)
       => /\ "create_project" \notin mutations
          /\ Len(projects) = NumWorks

C5_Witness ==
    /\ search_results > 0
    /\ pc = "done"
    /\ FigshareHadRecord

\* C6 (as claimed): a Zenodo run for a work that already has a record on
\* Zenodo never requests a new deposition.
C6_ZenodoDuplicateCheck ==
    (uploader = "Zenodo" /\ ZenodoHadRecord) => "create_deposition" \notin mutations

\* C7: in both uploaders the container is requested only for a work with a
\* long abstract, a supported licence, a main contributor and a retrieved
\* content file; a run that fails validation or retrieval has issued no
\* mutating request and created nothing.
C7_ValidationBeforeCreate ==
    /\ ("create_project" \in mutations \/ "create_deposition" \in mutations)
       => /\ metadata.longAbstract
          /\ metadata.license = "supported"
          /\ metadata.mainContributions >= 1
          /\ Len(publications) >= 1
    /\ failed_at \in PreCreationSteps
       => /\ mutations = {}
          /\ Len(projects) = NumWorks
          /\ Len(depositions) = NumWorks

C7_Witness ==
    /\ pc = "done"
    /\ outcome = "exit1"
    /\ failed_at = "get_publication_details"
    /\ mutations = {}

\* C8: a DELETE of a container is issued only by a run that has created its
\* container, and only for the id that creation returned: never in a run that
\* failed before or in the creation.
C8_CleanUpOnlyOwnContainer ==
    /\ \A i \in 1..Len(deletes) : deletes[i] = ContainerId /\ ContainerId > NumWorks
    /\ ("clean_up" \in mutations) = (deletes # <<>>)
    /\ pc = "clean_up" => ContainerId > NumWorks
    /\ ContainerId = 0 => deletes = <<>>
    /\ failed_at \in PreCreationSteps \cup {"create_project", "create_deposition"}
       => deletes = <<>> /\ ContainerId = 0

C8_Witness ==
    /\ uploader = "Figshare"
    /\ deletes = <<project_id>>
    /\ projects[project_id].state = "deleted"
    /\ projects[project_id].work = work_id

\* C9: a run that fails after its container was created issues the DELETE of
\* the container exactly once, also when that DELETE fails; no run issues it twice.
C9_CleanUpExactlyOnce ==
    /\ Len(deletes) <= 1
    /\ pc = "clean_up" => deletes = <<>>
    /\ (pc = "done" /\ (error # "none" \/ failed_at \in RecordSteps
                        \/ failed_at \in {"publish_project", "publish_deposition"}))
       => Len(deletes) = 1

C9_Witness ==
    /\ uploader = "Figshare"
    /\ pc = "done"
    /\ failed_at = "upload_file"
    /\ Len(deletes) = 1
    /\ projects[project_id].state = "draft"

\* C10 (as claimed): whatever way the DELETE fails, a run that failed with a
\* dissemination error ends in the exit with status 1, and a run that failed
\* with another exception ends by raising that exception.  Stated for the
\* Figshare uploader; ZenodoApi.clean_up and its caller have the same shape.
C10_CleanUpNeverMasks ==
    (uploader = "Figshare" /\ pc = "done" /\ error # "none")
    => IF error = "DisseminationError"
       THEN outcome = "exit1"
       ELSE outcome = "raised" /\ raised = error

\* C11 (as claimed): a Figshare run that fails inside the try statement with a
\* dissemination error logs it, issues the DELETE of its project and ends in
\* the exit with status 1; a run that fails there with any other exception
\* logs no error for it, issues the DELETE and ends by raising that exception.
C11_FailureClassification ==
    (uploader = "Figshare" /\ pc = "done" /\ error # "none")
    => /\ deletes = <<project_id>>
       /\ IF error = "DisseminationError"
          THEN /\ \E i \in 1..Len(log) : log[i] = <<"ERROR", failed_at>>
               /\ outcome = "exit1"
               /\ raised = "none"
          ELSE /\ \A i \in 1..Len(log) : log[i] # <<"ERROR", failed_at>>
               /\ outcome = "raised"
               /\ raised = error

(* --------------------------- upload_file ------------------------------ *)

\* the steps of the given kind in the trace of the current file
StepsOf(op) == {i \in 1..Len(requests) : requests[i][1] = op}

\* the bytes of the file at offsets first..last
Slice(first, last) == [k \in 1..(last - first + 1) |-> file_bytes[first + k]]

\* C12: for every file and every Part list of the upload service, the PUT
\* requests of upload_data are those of the list, one per Part and in the order
\* of the list: the i-th PUT goes to the partNo of the i-th Part and carries the
\* endOffset - startOffset + 1 bytes of the file at startOffset..endOffset; the
\* transfer is over only when every Part of the list was PUT.
C12_PartOrdering ==
    /\ Len(puts) <= Len(parts)
    /\ \A i \in 1..Len(puts) :
          /\ puts[i].partNo = parts[i].partNo
          /\ puts[i].data = Slice(parts[i].startOffset, parts[i].endOffset)
          /\ Len(puts[i].data) = parts[i].endOffset - parts[i].startOffset + 1
    /\ pc = "upload_part" => Len(puts) = Len(parts) - parts_left /\ parts_left >= 1
    /\ pc = "complete_upload" => Len(puts) = Len(parts) /\ parts = upload_plan

C12_Witness ==
    /\ pc = "complete_upload"
    /\ file_bytes = <<1, 2>>
    /\ parts = <<[partNo |-> 2, startOffset |-> 1, endOffset |-> 1],
                 [partNo |-> 1, startOffset |-> 0, endOffset |-> 1]>>
    /\ puts = <<[partNo |-> 2, data |-> <<2>>], [partNo |-> 1, data |-> <<1, 2>>]>>

\* C13: a PUT of a Part that fails is the last step of upload_file for that
\* file: no other Part is PUT after it and the Part is not PUT again, neither
\* complete_upload nor a status request is issued, the failure is the failure
\* of upload_file, and the run goes to the DELETE of its project.
C13_PartFailureAborts ==
    \A i \in StepsOf("upload_part") :
        requests[i][2] # "ok"
        => /\ i = Len(requests)
           /\ Len(puts) = Cardinality(StepsOf("upload_part"))
           /\ Len(puts) <= Len(parts)
           /\ StepsOf("complete_upload") = {}
           /\ StepsOf("check_upload_status") = {}
           /\ polls[file_no] = 0
           /\ error = requests[i][2]
           /\ failed_at = "upload_file"
           /\ pc \in {"clean_up", "done"}
           /\ pc = "done" => deletes = <<project_id>>

C13_Witness ==
    /\ pc = "done"
    /\ Len(parts) = 2
    /\ Len(puts) = 1
    /\ requests[Len(requests)] = <<"upload_part", "DisseminationError">>
    /\ deletes = <<project_id>>

\* the statuses for which check_upload_status neither returns nor polls again
FailedStatuses == Statuses \ {"available", "moving_to_final", "ic_success", "ic_checking"}

\* C14: a status request answered with created, ic_failure or a status the
\* code does not name is the last step of upload_file, however many
\* ic_checking answers came before it: upload_file fails with a dissemination
\* error, no file id is returned and the article is not published.
C14_FailClosedPolling ==
    \A k \in 1..2 :
        last_status[k] \in FailedStatuses
        => /\ file_no = k
           /\ requests[Len(requests)] = <<"check_upload_status", "DisseminationError">>
           /\ Cardinality(StepsOf("check_upload_status")) = polls[k]
           /\ error = "DisseminationError"
           /\ failed_at = "upload_file"
           /\ pc \in {"clean_up", "done"}
           /\ outcome # "returned"
           /\ k = 1 => pub_file_id # FileId(article_id, 1)
           /\ \A i \in 1..Len(locations) : locations[i].article # article_id

C14_Witness ==
    /\ last_status[1] = "unknown"
    /\ polls[1] = MaxTries
    /\ pc = "clean_up"

\* C15: check_upload_status issues at most MaxTries + 1 status requests for a
\* file, whatever the answers: only an ic_checking answer is followed by
\* another request, and at most MaxTries times; the next ic_checking answer
\* makes it log that success could not be confirmed and return the file id
\* without raising.
C15_BoundedPolling ==
    /\ tries <= MaxTries
    /\ \A k \in 1..2 : polls[k] <= MaxTries + 1
    /\ pc = "check_upload_status"
       => /\ tries = polls[file_no]
          /\ polls[file_no] > 0 => last_status[file_no] = "ic_checking"
          /\ \A i \in StepsOf("check_upload_status") : requests[i][2] = "retry"
    /\ (file_no = 2 /\ last_status[1] = "ic_checking")
       => /\ polls[1] = MaxTries + 1
          /\ pub_file_id = FileId(article_id, 1)
          /\ \E i \in 1..Len(log) : log[i] = <<"DEBUG", "could not confirm success">>

C15_Witness ==
    /\ pc = "publish_article"
    /\ polls = <<MaxTries + 1, MaxTries + 1>>
    /\ last_status = <<"ic_checking", "ic_checking">>
    /\ error = "none"

\* the pairs of steps that upload_file issues one right after the other
UploadOrder ==
    {<<"initiate_new_upload", "get_upload_url">>, <<"get_upload_url", "upload_data">>,
     <<"upload_data", "upload_part">>, <<"upload_data", "complete_upload">>,
     <<"upload_part", "upload_part">>, <<"upload_part", "complete_upload">>,
     <<"complete_upload", "check_upload_status">>,
     <<"check_upload_status", "check_upload_status">>}

\* C16: the steps of upload_file for a file start with the registration and
\* follow one another in the order registration, upload URL, Part list, Parts,
\* completion, status requests; a step is issued only when the step before it
\* succeeded (a status request also after one answered ic_checking);
\* complete_upload is issued only when every Part was PUT; and upload_file has
\* returned a file id only when its last status request ended without error.
C16_UploadProtocolOrder ==
    /\ requests # <<>> => requests[1][1] = "initiate_new_upload"
    /\ \A i \in 1..(Len(requests) - 1) :
          /\ <<requests[i][1], requests[i + 1][1]>> \in UploadOrder
          /\ requests[i][2] = IF requests[i][1] = "check_upload_status" THEN "retry"
                              ELSE "ok"
    /\ pc = "complete_upload" => Cardinality(StepsOf("upload_part")) = Len(upload_plan)
    /\ "complete_upload" \in {requests[i][1] : i \in 1..Len(requests)}
       => Cardinality(StepsOf("upload_part")) = Len(upload_plan)
    /\ ((file_no = 2 /\ pc = "initiate_new_upload") \/ pc = "publish_article")
       => requests[Len(requests)] = <<"check_upload_status", "ok">>
    /\ (pub_idx <= 1 /\ pub_file_id # 0)
       => /\ file_no = 2
          /\ pub_file_id = FileId(article_id, 1)
          /\ polls[1] >= 1
          /\ last_status[1] \notin FailedStatuses \cup {"none"}

C16_Witness ==
    /\ pc = "publish_article"
    /\ Len(requests) = 7
    /\ requests[6] = <<"check_upload_status", "retry">>
    /\ requests[7] = <<"check_upload_status", "ok">>

(* --------------------------- issue_request ---------------------------- *)

\* the call was answered, with a status code that is not the expected one
StatusMismatch ==
    /\ result.outcome \notin {"none", "pending"}
    /\ ~request.response.transport
    /\ request.response.status_code # request.expected_status

\* the first line of a message; of the empty string, the empty string
FirstLine(m) == IF splitlines(m) = <<>> THEN "" ELSE splitlines(m)[1]

\* C17 (as claimed): a call answered with a status code that is not the
\* expected one ends in a dissemination error, whatever the body; its message
\* carries the status code and, when the body is a JSON object with a message,
\* the first line of that message and nothing else of it.
C17_StatusMismatch ==
    StatusMismatch
    => /\ result.outcome = "DisseminationError"
       /\ result.error.status = request.response.status_code
       /\ result.error.text =
             IF request.response.body \in {"object", "object_missing"}
                /\ request.response.message # "None"
             THEN FirstLine(request.response.message)
             ELSE "None"

\* C18: a call whose caller wants data returned and whose response body is
\* not JSON ends in a dissemination error, whatever the status code; a call
\* whose caller wants nothing returned succeeds on such a body when the
\* status code is the expected one.
C18_MalformedBody ==
    (/\ result.outcome \notin {"none", "pending"}
     /\ ~request.response.transport
     /\ request.response.body = "not_json")
    => IF request.expects # "none"
       THEN result.outcome = "DisseminationError"
       ELSE (request.response.status_code = request.expected_status
             => result.outcome = "ok")

C18_Witness ==
    /\ request.api = "Zenodo"
    /\ request.expects = "full"
    /\ request.response.body = "not_json"
    /\ request.response.status_code = request.expected_status
    /\ result.outcome = "DisseminationError"

(* -------------------------- duplicate guard --------------------------- *)

\* C19: the search has reported a result only in a repository that defines
\* the field 'Thoth Work ID'; a run whose custom-fields request fails, or
\* finds no such field, ends there (with sys.exit(1) and the error logged, or
\* with the exception of the request when that is no dissemination error),
\* having issued neither the search nor any mutating request.
C19_DuplicateGuardPrecondition ==
    /\ search_results # -1 => custom_field
    /\ (uploader = "Figshare" /\ ~custom_field /\ pc # "check_custom_field_exists")
       => failed_at = "check_custom_field_exists"
    /\ failed_at = "check_custom_field_exists"
       => /\ pc = "done"
          /\ \/ outcome = "exit1" /\ Len(log) = 1 /\ log[1][1] = "ERROR"
             \/ outcome = "raised" /\ raised \notin {"none", "DisseminationError"}
          /\ search_results = -1
          /\ mutations = {}
          /\ Len(projects) = NumWorks
          /\ Len(articles) = NumWorks

C19_Witness ==
    /\ uploader = "Figshare"
    /\ ~custom_field
    /\ FigshareHadRecord
    /\ pc = "done"
    /\ outcome = "exit1"
    /\ log = <<<<"ERROR", "no Thoth Work ID field">>>>

(* ------------------------------ Locations ----------------------------- *)

\* C20: a Figshare run that returns, returns one Location for each publication
\* retrieved, in their order; the i-th Location carries the i-th publication,
\* the id of the article created for it, which is published and is the i-th
\* article of the run's project, and the id of the publication file of that
\* article, not of its JSON metadata file.
C20_LocationsOfDeposit ==
    (uploader = "Figshare" /\ outcome = "returned")
    => /\ Len(locations) = Len(publications)
       /\ Cardinality(OwnArticles) = Len(locations)
       /\ \A i \in 1..Len(locations) :
             /\ locations[i].publication = publications[i]
             /\ locations[i].article \in OwnArticles
             /\ Cardinality({a \in OwnArticles : a <= locations[i].article}) = i
             /\ articles[locations[i].article].state = "public"
             /\ locations[i].file = FileId(locations[i].article, 1)
             /\ locations[i].file # FileId(locations[i].article, 2)

C20_Witness ==
    /\ uploader = "Figshare"
    /\ outcome = "returned"
    /\ publications = <<"PDF", "XML">>
    /\ Len(locations) = 2
    /\ locations[2] = [publication |-> "XML", article |-> Len(articles),
                       file |-> FileId(Len(articles), 1)]

(* --------------------------- optional formats -------------------------- *)

\* the formats whose file the work holds and its host serves
Retrievable == {i \in 1..Len(PUB_FORMATS) : work_publications[i] = "retrievable"}

\* the loop over PUB_FORMATS is over
Collected == pc \notin {"check_custom_field_exists", "search_articles", "parse_metadata",
                        "fs_get_formatted_metadata", "get_publication_details"}
             /\ failed_at \notin PreCreationSteps \ {"get_publication_details"}

\* C21 (as claimed): in a Figshare run that has gone through the loop over
\* PUB_FORMATS, the run has failed there exactly when no format is
\* retrievable, whatever holds for the other formats; otherwise the
\* publications it goes on with are the retrievable formats, one each, in the
\* order of PUB_FORMATS, and the project is requested for them.
C21_OptionalFormats ==
    (uploader = "Figshare" /\ Collected)
    => /\ (failed_at = "get_publication_details") = (Retrievable = {})
       /\ Retrievable # {}
          => /\ Len(publications) = Cardinality(Retrievable)
             /\ \A k \in 1..Len(publications) :
                   \E i \in Retrievable : publications[k] = PUB_FORMATS[i]

(* -------------------------- transport failures ------------------------- *)

\* C22: a request issued inside the try statement (after the container was
\* created) that fails at transport level is not issued again: it is the last
\* step of the deposit but for the one DELETE of the container, which is
\* issued before the run ends, and the run ends by the exception, never by
\* returning.  A transport failure of the DELETE itself is not retried either.
C22_TransportFatal ==
    /\ error = "ConnectionError"
       => /\ pc \in {"clean_up", "done"}
          /\ ContainerId > NumWorks
          /\ outcome \in {"running", "raised"}
          /\ pc = "clean_up" => deletes = <<>>
          /\ pc = "done" => outcome = "raised" /\ deletes = <<ContainerId>>
    /\ \A i \in 1..Len(requests) :
          requests[i][2] = "ConnectionError"
          => /\ i = Len(requests)
             /\ error = "ConnectionError"
             /\ failed_at = "upload_file"
    /\ Len(deletes) <= 1

C22_Witness ==
    /\ uploader = "Figshare"
    /\ pc = "done"
    /\ error = "ConnectionError"
    /\ requests # <<>>
    /\ requests[Len(requests)] = <<"upload_part", "ConnectionError">>
    /\ deletes = <<project_id>>
    /\ raised = "ConnectionError"
    /\ projects[project_id].state = "deleted"

(* --------------------------- file registration ------------------------- *)

\* the bytes of the PUT requests, one after the other
RECURSIVE Concat(_)
Concat(ps) ==
    IF ps = <<>> THEN <<>>
    ELSE Concat(SubSeq(ps, 1, Len(ps) - 1)) \o ps[Len(ps)].data

\* upload_file has registered the current file and is transferring it
Registered == pc \in {"get_upload_url", "upload_data", "upload_part", "complete_upload",
                      "check_upload_status"}

\* C23: the record a file is registered with carries the name upload_file was
\* given, the number of bytes of the file and the hex digest of those bytes;
\* and the bytes PUT afterwards are bytes of that same file: every PUT is the
\* slice of it at the offsets of its Part, and when every Part of a list that
\* splits the file was PUT, the bytes sent are as many as registered and have
\* the registered digest.
C23_FileRegistration ==
    Registered
    => /\ file_info.name = <<work_id, IF file_no = 1 THEN FileExtension(publications[1])
                                      ELSE ".json">>
       /\ file_info.size = Len(file_bytes)
       /\ file_info.md5 = hexdigest(hashlib_md5(file_bytes))
       /\ \A i \in 1..Len(puts) :
             puts[i].data = Slice(parts[i].startOffset, parts[i].endOffset)
       /\ pc = "complete_upload"
          => /\ Len(Concat(puts)) = file_info.size
             /\ hexdigest(hashlib_md5(Concat(puts))) = file_info.md5

C23_Witness ==
    /\ pc = "complete_upload"
    /\ file_no = 1
    /\ work_id = 2
    /\ publications = <<"XML">>
    /\ Len(puts) = 2
    /\ Concat(puts) = <<1, 2>>
    /\ file_info = [name |-> <<2, ".zip">>, md5 |-> <<"f", "5">>, size |-> 2]

(* ------------------------ no delete after publish ---------------------- *)

\* C24 (as claimed): the DELETE of a project is neither issued nor about to be
\* issued when the project or one of its articles is published.  A published
\* item stays published, so a published article of the project in a state
\* where the DELETE was issued was published before it.  Stated for the
\* Figshare uploader; ZenodoUploader calls clean_up after a publish request
\* that was carried out and answered without links.html in the same way.
C24_NoDeleteAfterPublish ==
    (uploader = "Figshare" /\ (pc = "clean_up" \/ deletes # <<>>))
    => /\ projects[project_id].state # "public"
       /\ \A a \in OwnArticles : articles[a].state # "public"

(* -------------------------- Record sequencing -------------------------- *)

\* fsuploader.py:98-114 with create_article: the steps of one Record, in order
RecordOrder == <<"create_article", "remove_article_author", "upload_publication_file",
                 "upload_metadata_file", "publish_article">>

\* the requests of upload_file
UploadPcs == {"initiate_new_upload", "get_upload_url", "upload_data", "upload_part",
              "complete_upload", "check_upload_status"}

\* the first of the steps that step k was done in a row with, for one Record
RecordStart(k) == k - ((k - 1) % Len(RecordOrder))

\* C25: the steps a Figshare run has completed are, for one publication after
\* the other in list order, create article, remove author, upload publication
\* file, upload JSON metadata file, publish article, all five on the article
\* created by the first; the article of the next publication is requested
\* only when all five are done for every publication before it and every
\* article of the project is published; and a file is uploaded only to an
\* article whose author removal succeeded: a failed removal is the last step.
C25_RecordSequencing ==
    uploader = "Figshare"
    => /\ \A k \in 1..Len(done_steps) :
             /\ done_steps[k][1] = RecordOrder[k - RecordStart(k) + 1]
             /\ done_steps[k][2] = done_steps[RecordStart(k)][2]
             /\ done_steps[k][2] \in OwnArticles
             /\ k > Len(RecordOrder)
                => done_steps[RecordStart(k)][2] > done_steps[k - Len(RecordOrder)][2]
       /\ Len(locations) = Len(done_steps) \div Len(RecordOrder)
       /\ \A i \in 1..Len(locations) :
             /\ locations[i].publication = publications[i]
             /\ locations[i].article = done_steps[i * Len(RecordOrder)][2]
       /\ pc = "create_article"
          => /\ Len(done_steps) = Len(RecordOrder) * (pub_idx - 1)
             /\ \A a \in OwnArticles : articles[a].state = "public"
       /\ pc \in UploadPcs
          => /\ Len(done_steps) >= 2
             /\ \E k \in 1..Len(done_steps) :
                   /\ done_steps[k] = <<"remove_article_author", article_id>>
                   /\ k >= Len(done_steps) - 1
       /\ pc = "publish_article"
          => /\ Len(done_steps) % Len(RecordOrder) = 4
             /\ done_steps[Len(done_steps)] = <<"upload_metadata_file", article_id>>
       /\ failed_at = "remove_article_author"
          => /\ done_steps # <<>>
             /\ done_steps[Len(done_steps)] = <<"create_article", article_id>>
             /\ pc \in {"clean_up", "done"}

C25_Witness ==
    /\ uploader = "Figshare"
    /\ Len(publications) = 2
    /\ Len(done_steps) = 5
    /\ pc = "create_article"

(* ------------------------ Zenodo deposit ordering ---------------------- *)

\* C26: in a Zenodo run the requests of the try statement are the PDF upload,
\* the JSON metadata upload and publish_deposition, in that order and each
\* only when the one before it was answered as expected; a failed request is
\* the last of them (after a failed PDF upload no metadata upload is
\* requested); a run that failed in one of them issues the DELETE of its
\* deposition and ends with exit status 1 (by sys.exit(1) or by the exception
\* that nothing catches), and a run returns only when publish_deposition was
\* carried out and answered with a links.html URL.
C26_ZenodoOrdering ==
    uploader = "Zenodo"
    => /\ Len(zn_requests) <= 3
       /\ \A i \in 1..Len(zn_requests) :
             /\ zn_requests[i][1] = IF i = 3 THEN "publish_deposition" ELSE "upload_file"
             /\ i < Len(zn_requests) => zn_requests[i][2] = "ok"
             /\ zn_requests[i][2] # "ok"
                => /\ error = zn_requests[i][2]
                   /\ pc \in {"clean_up", "done"}
                   /\ pc = "done" => deletes = <<deposition_id>>
                                      /\ outcome \in {"exit1", "raised"}
       /\ (pc = "publish_deposition" \/ "publish_deposition" \in mutations)
          => /\ Len(done_steps) >= 2
             /\ done_steps[1] = <<"upload_publication_file", deposition_id>>
             /\ done_steps[2] = <<"upload_metadata_file", deposition_id>>
       /\ error # "none" => (pc = "done" => Len(deletes) = 1 /\ outcome # "returned")
       /\ outcome = "returned"
          => /\ Len(zn_requests) = 3
             /\ zn_requests[3] = <<"publish_deposition", "ok">>
             /\ depositions[deposition_id].state = "public"
             /\ deletes = <<>>

C26_Witness ==
    /\ uploader = "Zenodo"
    /\ pc = "done"
    /\ zn_requests = <<<<"upload_file", "DisseminationError">>>>
    /\ deletes = <<deposition_id>>
    /\ outcome = "exit1"
    /\ depositions[deposition_id].state = "deleted"

(* --------------------------- Locations printed ------------------------- *)

\* C27: Locations are printed only by a run whose upload_to_platform
\* returned: then they are all the Locations collected, one per publication,
\* and the project and every article of it are published.  A run that ended
\* in the exit with status 1 or by an exception has printed nothing, whatever
\* Locations it had collected for articles published before the failure.
C27_LocationsOnlyOnSuccess ==
    /\ stdout # <<>>
       => /\ uploader = "Figshare"
          /\ outcome = "returned"
          /\ stdout = locations
          /\ Len(stdout) = Len(publications)
          /\ projects[project_id].state = "public"
          /\ \A a \in OwnArticles : articles[a].state = "public"
    /\ outcome \in {"exit1", "raised"} => stdout = <<>> /\ pc # "finished"
    /\ pc = "finished" => outcome = "returned"
    /\ (pc = "finished" /\ uploader = "Figshare") => stdout = locations /\ stdout # <<>>

C27_Witness ==
    /\ uploader = "Figshare"
    /\ pc = "done"
    /\ outcome = "exit1"
    /\ failed_at = "create_article"
    /\ Len(locations) = 1
    /\ articles[locations[1].article].state = "public"
    /\ stdout = <<>>

(* --------------------------- the polling bound ------------------------- *)

\* upload_file has returned the id of file k of the current article
Uploaded(k) == \E i \in 1..Len(done_steps) : done_steps[i] = <<UploadStep(k), article_id>>

\* C28: for every file, check_upload_status issues at most MaxTries + 1 status
\* requests and sleeps at most MaxTries times, SleepSeconds each time and
\* only between two requests: every request but the last is followed by one
\* sleep.  When all the answers are ic_checking it returns the file id after
\* exactly MaxTries + 1 requests and MaxTries sleeps.
C28_ExactPollingBound ==
    uploader = "Figshare"
    => \A k \in 1..2 :
          /\ polls[k] <= MaxTries + 1
          /\ slept[k] <= MaxTries * SleepSeconds
          /\ polls[k] = 0 => slept[k] = 0
          /\ polls[k] > 0
             => slept[k] = SleepSeconds * (IF pc = "check_upload_status" /\ file_no = k
                                           THEN polls[k] ELSE polls[k] - 1)
          /\ (last_status[k] = "ic_checking" /\ Uploaded(k))
             => /\ polls[k] = MaxTries + 1
                /\ slept[k] = MaxTries * SleepSeconds
                /\ k = 1 => pub_file_id = FileId(article_id, 1)

C28_Witness ==
    /\ pc = "initiate_new_upload"
    /\ file_no = 2
    /\ last_status[1] = "ic_checking"
    /\ polls = <<4, 0>>
    /\ slept = <<15, 0>>
    /\ pub_file_id = FileId(article_id, 1)

(* ----------------------- interleaved deposits ------------------------- *)

\* the repository's object of a kind and an id
PlatformObject(c) == IF c[1] = "project" THEN projects[c[2]] ELSE articles[c[2]]

\* the run asked for a change of the object: a request to the object itself
\* or, for an article, the deletion of its project
AskedFor(rn, kind, id) ==
    \/ <<kind, id>> \in rn.touched
    \/ kind = "article" /\ <<"project", articles[id].project>> \in rn.touched

\* the projects and articles of a work whose state a request has changed
Changed(w) ==
    {<<"project", p>> : p \in {x \in DOMAIN projects :
          projects[x].work = w /\ projects[x].state \in {"public", "deleted"}}}
    \cup {<<"article", a>> : a \in {x \in DOMAIN articles :
          articles[x].work = w /\ articles[x].state \in {"public", "deleted"}}}

\* C29: two interleaved Figshare runs for different works do not interfere.
\* Every request of a run that addresses a project or an article addresses
\* one whose id the repository returned to that run, and that object belongs
\* to the run's work; no object of a work is published or deleted unless the
\* run of that work asked for it; the search of a run never finds an article
\* of the other run; and a run that returned has its project and its article
\* published, whatever the other run did.
C29_IndependentDeposits ==
    (runs["a"].work_id # runs["b"].work_id) =>
        \A i \in Runs :
            /\ runs[i].touched \subseteq runs[i].created
            /\ \A c \in runs[i].created : PlatformObject(c).work = runs[i].work_id
            /\ \A c \in Changed(runs[i].work_id) : AskedFor(runs[i], c[1], c[2])
            /\ runs[i].search_results \in {-1, 0}
            /\ runs[i].outcome = "returned" =>
                  /\ projects[runs[i].project_id].state = "public"
                  /\ articles[runs[i].article_id].state = "public"

\* run a failed after run b had created its project, and cleaned up: its own
\* project is deleted, and run b has returned with its deposit published
C29_Witness ==
    /\ runs["a"].work_id # runs["b"].work_id
    /\ runs["a"].pc = "done"
    /\ runs["a"].failed_at = "upload_publication_file"
    /\ runs["a"].project_id # 0
    /\ runs["a"].project_id < runs["b"].project_id
    /\ projects[runs["a"].project_id].state = "deleted"
    /\ runs["b"].outcome = "returned"
    /\ projects[runs["b"].project_id].state = "public"

\* C30: the duplicate search is the only duplicate test of a run and it sees
\* the repository as it is at the moment of the search.  A run creates a
\* project exactly when its own search found nothing, a run that found
\* something ends at the search having created nothing, and two runs that
\* both passed hold two different projects: nothing after the search looks
\* for the other run's deposit.
C30_DuplicateGuardRace ==
    \A i \in Runs :
        /\ runs[i].project_id # 0 => runs[i].search_results = 0
        /\ runs[i].search_results > 0 =>
              /\ runs[i].pc = "done"
              /\ runs[i].outcome = "exit1"
              /\ runs[i].failed_at = "search_articles"
              /\ runs[i].created = {}
        /\ \A j \in Runs \ {i} :
              runs[i].project_id # 0 /\ runs[j].project_id # 0 =>
                  runs[i].project_id # runs[j].project_id

\* both runs deposit the same work, both searched before the other had
\* created an article, and both returned: two published projects, each with
\* a published article, for one work
C30_Witness ==
    /\ runs["a"].work_id = runs["b"].work_id
    /\ \A i \in Runs :
          /\ runs[i].outcome = "returned"
          /\ runs[i].search_results = 0
          /\ projects[runs[i].project_id].state = "public"
          /\ projects[runs[i].project_id].work = runs[i].work_id
          /\ articles[runs[i].article_id].state = "public"
    /\ runs["a"].project_id # runs["b"].project_id

(* ------------------ SFTP uploaders: failure of an upload -------------- *)

\* the elements of a list
Range(list) == {list[k] : k \in DOMAIN list}

\* C31: JSTOR, Project MUSE, EBSCOHost and ProQuest put their files one at a
\* time in list order.  Once an upload has failed no further file is put, the
\* run ends with exit status 1 after a remove was attempted for every name of
\* the list, and if no remove was refused none of the files is left on the
\* server.
C31_SftpUploadFailure ==
    LET rn == sftp_upload IN
    rn.platform \in SftpPlatforms =>
        /\ Len(rn.puts) <= Len(rn.files)
        /\ \A k \in DOMAIN rn.puts : rn.puts[k] = rn.files[k]
        /\ rn.put_error # "none" =>
              /\ rn.pc \in {"remove", "done"}
              /\ rn.pc = "done" =>
                    /\ ExitStatus(rn.outcome) = 1
                    /\ [k \in DOMAIN rn.removes |-> rn.removes[k][1]] = rn.files
                    /\ (\A k \in DOMAIN rn.removes : rn.removes[k][2] # "IOError")
                          => rn.server \cap Range(rn.files) = {}

(* ----------------------- PDF and/or EPUB required --------------------- *)

\* the run has gone on to the connection or the uploads
Proceeded(rn) ==
    \/ rn.pc \in {"connect", "putfo", "remove"}
    \/ rn.pc = "done" /\ rn.at \in {"connect", "putfo", "remove"}

\* C32: Project MUSE, EBSCOHost, ProQuest and Google Play go on to connect
\* and upload exactly when the PDF or the EPUB publication is retrievable.
\* When neither is, both errors are logged and the run ends with exit status
\* 1 with no connection and no upload; when exactly one is, only that
\* content file is in the list of files.
C32_PdfOrEpubRequired ==
    LET rn == sftp_upload
        has_pdf == rn.pdf = "retrievable"
        has_epub == rn.epub = "retrievable" IN
    rn.platform \in ContentPlatforms =>
        /\ Proceeded(rn) => (has_pdf \/ has_epub)
        /\ (rn.pc = "done" /\ ~Proceeded(rn)) => ~(has_pdf \/ has_epub)
        /\ (rn.pc = "done" /\ ~has_pdf /\ ~has_epub) =>
              /\ rn.errors = <<"pdf_error", "epub_error">>
              /\ ExitStatus(rn.outcome) = 1
              /\ ~rn.connected
              /\ rn.puts = <<>>
        /\ (Proceeded(rn) /\ has_pdf /\ ~has_epub) =>
              Range(rn.files) \cap {"pdf", "epub"} = {"pdf"}
        /\ (Proceeded(rn) /\ has_epub /\ ~has_pdf) =>
              Range(rn.files) \cap {"pdf", "epub"} = {"epub"}

(* ------------------------- date-window selection ---------------------- *)

\* the ids of the works of the catalogue published in the period, as served
Wanted(rn, upto) ==
    SelectSeq([k \in 1..upto |-> WorkId(k)],
              LAMBDA x : /\ rn.catalogue[x.id] >= rn.start_date
                         /\ rn.catalogue[x.id] <= rn.end_date)

\* the place of the first work published before the period; one past the
\* end of the catalogue if there is none
FirstEarlier(rn) ==
    LET earlier == {k \in DOMAIN rn.catalogue : rn.catalogue[k] < rn.start_date} IN
    IF earlier = {} THEN Len(rn.catalogue) + 1
    ELSE CHOOSE k \in earlier : \A j \in earlier : k <= j

\* C33: get_thoth_ids_iteratively, served one work per query in descending
\* order of publication date, ends after at most one query more than there
\* are works; while it runs it has collected exactly the works in the period
\* among those served so far and has seen none published before the period;
\* when it has ended it has collected exactly the works in the period, in the
\* served order, and it issued its last query for the first work published
\* before the period or, if there is none, for the empty batch.
C33_DateWindowSelection ==
    LET rn == id_finder IN
    rn.finder = "CatchupIDFinder" =>
        /\ rn.queries <= Len(rn.catalogue) + 1
        /\ rn.pc = "works" =>
              /\ rn.queries = rn.offset
              /\ rn.offset < FirstEarlier(rn)
              /\ rn.thoth_ids = Wanted(rn, rn.offset)
        /\ rn.pc = "remove_exceptions" =>
              /\ rn.thoth_ids = Wanted(rn, Len(rn.catalogue))
              /\ rn.last_batch \in {"empty", "break"}
        /\ rn.pc \in {"remove_exceptions", "post_process"} =>
              rn.queries = FirstEarlier(rn)

\* the loop has passed over a work later than the period, collected one in
\* it, and stopped at one published before it
C33_Witness ==
    /\ id_finder.finder = "CatchupIDFinder"
    /\ id_finder.pc = "remove_exceptions"
    /\ id_finder.catalogue # <<>>
    /\ id_finder.catalogue[1] > id_finder.end_date
    /\ id_finder.thoth_ids # <<>>
    /\ id_finder.last_batch = "break"

(* ---------------------------- publisher guard ------------------------- *)

\* obtain_new_ids.py:40-44  the steps of IDFinder.run
RunOrder == <<"get_publishers", "get_query_parameters", "get_thoth_ids",
              "remove_exceptions", "post_process">>

\* the list of ENV_PUBLISHERS is JSON, not empty, and Thoth knows every id
PublishersValid(rn) ==
    /\ rn.env_publishers # <<"not_json">>
    /\ Len(rn.env_publishers) >= 1
    /\ \A k \in DOMAIN rn.env_publishers : rn.env_publishers[k] = "known"

\* C35: IDFinder.run issues a query for work ids only when the publisher
\* list is valid JSON, not empty and every publisher in it was found; in
\* every other case the run exits with status 1 and prints no list.  Its
\* steps begin in the order get_publishers, get_query_parameters,
\* get_thoth_ids, remove_exceptions, post_process, and the printed list holds
\* no excepted work id, however the exception is spelt.
C35_PublisherGuard ==
    LET rn == id_finder IN
    /\ rn.queries > 0 => PublishersValid(rn) /\ rn.checked = Len(rn.env_publishers)
    /\ (rn.pc = "done" /\ ~PublishersValid(rn)) =>
          /\ ExitStatus(rn.outcome) = 1
          /\ ~rn.has_printed
          /\ rn.queries = 0
    /\ Len(rn.steps) <= Len(RunOrder)
    /\ \A k \in DOMAIN rn.steps : rn.steps[k] = RunOrder[k]
    /\ rn.has_printed =>
          /\ rn.steps = RunOrder
          /\ rn.env_exceptions.kind = "list" =>
                \A k \in DOMAIN rn.printed : rn.printed[k].id # rn.env_exceptions.id

\* a run with two publishers that printed its list after an exception,
\* written in upper case, was taken out of the ids found
C35_Witness ==
    /\ id_finder.has_printed
    /\ Len(id_finder.env_publishers) = 2
    /\ id_finder.env_exceptions.kind = "list"
    /\ id_finder.env_exceptions.upper
    /\ id_finder.env_exceptions.id \in DOMAIN id_finder.catalogue
    /\ id_finder.finder = "IDFinder"
    /\ Len(id_finder.printed) = Len(id_finder.catalogue) - 1

(* ------------------------- Crossref paging loop ----------------------- *)

\* the ids of the works updated after the last deposit, without the exceptions
UpdatedSince(rn) ==
    {WorkId(k) : k \in {x \in DOMAIN rn.catalogue : rn.catalogue[x] > rn.last_deposit_time}}
    \ (IF rn.env_exceptions.kind = "list"
       THEN {[id |-> rn.env_exceptions.id, upper |-> rn.env_exceptions.upper]}
       ELSE {})

\* C34: with a valid publisher list the paging loop of
\* obtain_new_ids_crossref.py ends after finitely many queries, whatever the
\* catalogue, and the script then prints exactly the ids of the works updated
\* after last_deposit_time, without the exceptions.
C34_CrossrefPagingTerminates ==
    LET rn == crossref_ids IN
    /\ rn.queries <= Len(rn.catalogue) + 1
    /\ (rn.pc = "done" /\ PublishersValid(rn)) =>
          /\ rn.outcome = "returned"
          /\ rn.has_printed
          /\ Range(rn.printed) = UpdatedSince(rn)

(* --------------------- Internet Archive duplicate guard --------------- *)

\* C36: IAUploader calls upload only after the Archive reported the
\* identifier, which is the work id, as available, and then no item with it
\* existed; when an item exists the run ends with exit status 1 having
\* downloaded nothing and not called upload; and success is reported only
\* when upload returned at least one response and every response has status
\* 200.
C36_IADuplicateGuard ==
    LET rn == ia_upload IN
    /\ rn.upload_called => (rn.available = "yes" /\ ~rn.existed)
    /\ rn.downloads # <<>> => rn.available = "yes"
    /\ (rn.pc = "done" /\ rn.existed) =>
          /\ ExitStatus(rn.outcome) = 1
          /\ rn.downloads = <<>>
          /\ ~rn.upload_called
    /\ rn.success =>
          /\ rn.outcome = "returned"
          /\ Len(rn.responses) >= 1
          /\ \A k \in DOMAIN rn.responses : rn.responses[k] = 200

\* an item with the identifier exists and the Archive said so: the run has
\* exited before any download
C36_Witness ==
    /\ ia_upload.existed
    /\ ia_upload.available = "no"
    /\ ia_upload.pc = "done"
    /\ ia_upload.outcome = "exit1"
    /\ ia_upload.at = "identifier_available"
    /\ ia_upload.downloads = <<>>

(* ------------------------ Crossref deposit ordering ------------------- *)

\* C37: the deposit POST is issued only after both credentials were found,
\* the deposit file was retrieved and the prefix lookup was answered with
\* status 200, in that order; a run that has ended reports success exactly
\* when the POST was answered with status 200 and a text containing the
\* success message, and has exit status 1 otherwise.
C37_CrossrefDepositOrdering ==
    LET rn == crossref_upload IN
    /\ rn.posted =>
          /\ rn.steps = <<"credentials", "deposit_file", "prefix">>
          /\ rn.credentials.crossref_user /\ rn.credentials.crossref_pw
          /\ rn.prefix_status = 200
    /\ rn.pc = "done" =>
          /\ rn.success <=> (rn.posted /\ rn.at = "deposit" /\ rn.raised = "none"
                             /\ rn.deposit_status = 200 /\ rn.deposit_text)
          /\ ~rn.success => ExitStatus(rn.outcome) = 1
          /\ rn.success => (rn.outcome = "returned" /\ rn.work_id \in rn.received)

\* the POST was answered with status 200 but without the success message:
\* the run has exited with status 1
C37_Witness ==
    /\ crossref_upload.pc = "done"
    /\ crossref_upload.posted
    /\ crossref_upload.deposit_status = 200
    /\ ~crossref_upload.deposit_text
    /\ crossref_upload.raised = "none"
    /\ crossref_upload.outcome = "exit1"

(* --------------------- write_locations.py ----------------------------- *)

\* the characters of a field: a letter and the space
Chars == {"a", " "}

\* the strings of at most n characters
RECURSIVE Strings(_)
Strings(n) ==
    IF n = 0 THEN {<<>>}
    ELSE LET shorter == Strings(n - 1) IN
         shorter \cup {<<c>> \o t : c \in Chars, t \in {u \in shorter : Len(u) = n - 1}}

\* a Python value that is a str
Str(text) == [none |-> FALSE, text |-> text]

\* the Python value None
None == [none |-> TRUE, text |-> <<>>]

\* uploader.py:60-64  Location.__init__: the callers pass an id, a platform
\* name and URLs that are not empty; the full text URL is None where the
\* platform reports no file URL (culuploader.py:48, oapensworduploader.py:61)
Locations ==
    LET Texts == {Str(t) : t \in Strings(MaxField) \ {<<>>}} IN
    [publication_id : Texts, location_platform : Texts, landing_page : Texts,
     full_text_url : Texts \cup {None}]

\* "{}".format(value): a str as it is, None as the four characters None
format(value) == IF value.none THEN <<"N", "o", "n", "e">> ELSE value.text

\* uploader.py:66-72  Location.__str__
Location_str(location) ==
    format(location.publication_id) \o <<" ">> \o format(location.location_platform)
        \o <<" ">> \o format(location.landing_page) \o <<" ">>
        \o format(location.full_text_url)

\* str.rstrip(): the string without its trailing whitespace
RECURSIVE rstrip(_)
rstrip(s) ==
    IF s = <<>> THEN s
    ELSE IF s[Len(s)] \in {" ", "\n"} THEN rstrip(SubSeq(s, 1, Len(s) - 1))
    ELSE s

\* str.split(' '): the pieces between single spaces, empty pieces included
RECURSIVE split(_)
split(s) ==
    IF s = <<>> THEN << <<>> >>
    ELSE LET rest == split(Tail(s)) IN
         IF Head(s) = " " THEN << <<>> >> \o rest
         ELSE << <<Head(s)>> \o Head(rest) >> \o Tail(rest)

\* one Location from Uploader.run to write_locations.py
LocationRun(location) ==
    [pc |-> "print", location |-> location, line |-> <<>>, parts |-> <<>>,
     written |-> <<>>, outcome |-> "none", raised |-> "none"]

InitLocation ==
    /\ DepositIdle
    /\ location_line \in {LocationRun(l) : l \in Locations}
    /\ sftp_upload = Idle
    /\ id_finder = Idle
    /\ crossref_ids = Idle
    /\ ia_upload = Idle
    /\ crossref_upload = Idle

notLocationVars == <<depositVars, sftp_upload, id_finder, crossref_ids, ia_upload,
                     crossref_upload>>

\* an exception that nothing catches
LocationRaise(rn, exc) ==
    [rn EXCEPT !.pc = "done", !.outcome = "raised", !.raised = exc]

\* uploader.py:98-99  "for location in locations: print(location)": the line
\* of the locations file
print_location ==
    /\ location_line.pc = "print"
    /\ location_line' = [location_line EXCEPT
                            !.pc = "read",
                            !.line = Location_str(location_line.location) \o <<"\n">>]
    /\ UNCHANGED notLocationVars

\* write_locations.py:45-46  parts = location.rstrip().split(' ')
read_location ==
    /\ location_line.pc = "read"
    /\ location_line' = [location_line EXCEPT
                            !.pc = "write",
                            !.parts = split(rstrip(location_line.line))]
    /\ UNCHANGED notLocationVars

\* write_locations.py:16-39 and 47-50  write_thoth_location(parts[0],
\* parts[1], parts[2], parts[3]): a missing part is an IndexError, whose
\* handler evaluates '...'.location, an AttributeError; THOTH_EMAIL and
\* THOTH_PWD unset are a KeyError, a refused login a ValueError
write_thoth_location ==
    /\ location_line.pc = "write"
    /\ \E username \in BOOLEAN, password \in BOOLEAN, login \in {"ok", "ThothError"},
          created \in {"ok", "ThothError"} :
          LET rn == location_line IN
          location_line' =
              IF Len(rn.parts) < 4 THEN LocationRaise(rn, "AttributeError")
              ELSE IF ~username \/ ~password THEN LocationRaise(rn, "KeyError")
              ELSE IF login # "ok" THEN LocationRaise(rn, "ValueError")
              ELSE IF created # "ok" THEN LocationRaise(rn, "ThothError")
              ELSE [rn EXCEPT !.pc = "done", !.outcome = "written",
                              !.written = << [publicationId |-> Str(rn.parts[1]),
                                              landingPage |-> Str(rn.parts[3]),
                                              fullTextUrl |-> Str(rn.parts[4]),
                                              locationPlatform |-> Str(rn.parts[2]),
                                              canonical |-> "false"] >>]
    /\ UNCHANGED notLocationVars

NextLocation ==
    \/ print_location
    \/ read_location
    \/ write_thoth_location

SpecLocation == InitLocation /\ [][NextLocation]_vars

(* ------------------------ Location line round trip -------------------- *)

\* no field of the Location contains a space
NoSpace(location) ==
    \A f \in {"publication_id", "location_platform", "landing_page", "full_text_url"} :
       \A i \in 1..Len(location[f].text) : location[f].text[i] # " "

\* C38: the line printed for a Location whose four fields contain no space
\* is split by write_locations.py into the same four values in the same
\* order (the full text URL being None where the line has no fourth
\* piece), and what is written to Thoth carries them; a full text URL that
\* is None is written as None.
C38_LocationRoundTrip ==
    LET rn == location_line
        loc == rn.location IN
    (rn.pc \in {"write", "done"} /\ NoSpace(loc)) =>
        /\ Len(rn.parts) \in {3, 4}
        /\ Str(rn.parts[1]) = loc.publication_id
        /\ Str(rn.parts[2]) = loc.location_platform
        /\ Str(rn.parts[3]) = loc.landing_page
        /\ (IF Len(rn.parts) = 4 THEN Str(rn.parts[4]) ELSE None) = loc.full_text_url
        /\ rn.written # <<>> =>
              /\ rn.written[1].publicationId = loc.publication_id
              /\ rn.written[1].locationPlatform = loc.location_platform
              /\ rn.written[1].landingPage = loc.landing_page
              /\ rn.written[1].fullTextUrl = loc.full_text_url

====
